---- MODULE Spec2Model ----
(***************************************************************************)
(* Model of the Tableflow metadata generator: sanitize_field and the       *)
(* schema validation pass of the table pipeline (table_generator.py), the  *)
(* generation stage of the module, table and dashboard pipelines, the      *)
(* dashboard pipeline with its id assignment, cleaning, layout and         *)
(* serialization passes (dashboard_generator.py), the column schema of     *)
(* the export (utils.py) and the dropdown injection (dropdowns.py).        *)
(*                                                                         *)
(* A Python str is modelled as a sequence of one-character strings, so    *)
(* that replace, strip, lower and substring tests are computed and not    *)
(* assumed.  A DataFrame is the sequence of its rows, each row a record   *)
(* whose domain is the set of columns.                                    *)
(***************************************************************************)
EXTENDS Integers, Sequences, FiniteSets, TLC

VARIABLES
    pc,        \* position of the running pipeline / pass
    df,        \* the DataFrame (or the value) the pass works on
    raw,       \* the input: the answer of the completion service, or the
               \* value first handed to the pass
    summary,   \* user_data_summary: table name -> list of column names
    stages,    \* the calls and passes that have run and the messages
               \* printed so far, in order
    written,   \* the frames handed to export_full_metadata so far
    output_file \* whether main_pipeline was given an output file

vars == <<pc, df, raw, summary, stages, written, output_file>>

(***************************************************************************)
(* Python str operations                                                   *)
(***************************************************************************)
UpperChars == <<"A","B","C","D","E","F","G","H","I","J","K","L","M",
                "N","O","P","Q","R","S","T","U","V","W","X","Y","Z">>
LowerChars == <<"a","b","c","d","e","f","g","h","i","j","k","l","m",
                "n","o","p","q","r","s","t","u","v","w","x","y","z">>

Whitespace == {" ", "\t", "\n"}

LowerChar(c) ==
    IF \E i \in 1..26 : UpperChars[i] = c
    THEN LowerChars[CHOOSE i \in 1..26 : UpperChars[i] = c]
    ELSE c

\* str.lower()
StrLower(s) == IF s = <<>> THEN <<>> ELSE [i \in 1..Len(s) |-> LowerChar(s[i])]

\* str.replace(old, new) for a non-empty old: leftmost, non-overlapping
RECURSIVE StrReplace(_, _, _)
StrReplace(s, old, new) ==
    IF Len(s) < Len(old) THEN s
    ELSE IF SubSeq(s, 1, Len(old)) = old
         THEN new \o StrReplace(SubSeq(s, Len(old) + 1, Len(s)), old, new)
         ELSE <<s[1]>> \o StrReplace(Tail(s), old, new)

RECURSIVE LStrip(_)
LStrip(s) == IF s # <<>> /\ s[1] \in Whitespace THEN LStrip(Tail(s)) ELSE s

RECURSIVE RStrip(_)
RStrip(s) ==
    IF s # <<>> /\ s[Len(s)] \in Whitespace
    THEN RStrip(SubSeq(s, 1, Len(s) - 1)) ELSE s

\* str.strip()
StrStrip(s) == RStrip(LStrip(s))

\* p in s
StrContains(s, p) ==
    \E i \in 0..(Len(s) - Len(p)) : SubSeq(s, i + 1, i + Len(p)) = p

\* any(p in s for p in patterns)
AnyIn(patterns, s) == \E k \in 1..Len(patterns) : StrContains(s, patterns[k])

\* x in list
InList(x, list) == \E k \in 1..Len(list) : list[k] = x

\* a Field value that is not a str: the missing value (None, NaN)
NaN == <<"NaN">>
\* isinstance(field, str)
IsStr(field) == field # NaN

(***************************************************************************)
(* sanitize_field (table_generator.py)                                     *)
(***************************************************************************)
\* variant: the underscore is missing from the list
invalid_chars_without_underscore ==
    <<".", "+", "-", "*", "/", "(", ")", "[", "]", "\"", "{", "}">>

invalid_chars == <<".", "+", "-", "*", "/", "(", ")", "[", "]", "\"", "{", "}", "_">>

RECURSIVE RemoveEach(_, _)
RemoveEach(field, chars) ==
    IF chars = <<>> THEN field
    ELSE RemoveEach(StrReplace(field, <<Head(chars)>>, <<>>), Tail(chars))

sanitize_field(field) == RemoveEach(field, invalid_chars)

RecordID == <<"R","e","c","o","r","d"," ","I","D">>

(***************************************************************************)
(* TableGeneratorAI.validate_fields                                        *)
(***************************************************************************)
\* Step 1: the columns of every table of user_data_summary, sanitized
SanitizedSummary(s) ==
    [t \in DOMAIN s |->
        IF s[t] = <<>> THEN <<>>
        ELSE [k \in 1..Len(s[t]) |-> sanitize_field(s[t][k])]]

\* sanitized_summary.get(table_name, [])
ValidColumns(ssum, table_name) ==
    IF table_name \in DOMAIN ssum THEN ssum[table_name] ELSE <<>>

\* a row whose Field is kept as typed (what validate_row must not do)
ValidateRowKeepsRaw(row, ssum) ==
    LET valid_columns == ValidColumns(ssum, row.TableName)
        row_display_clean == sanitize_field(row.DisplayField)
    IN [row EXCEPT
          !.Field = IF ~InList(sanitize_field(row.Field), valid_columns)
                    THEN RecordID ELSE row.Field,
          !.DisplayField = IF ~InList(row_display_clean, valid_columns)
                              /\ row_display_clean # RecordID
                           THEN RecordID ELSE row_display_clean]

\* variant: a valid Display Field is written back as typed, not sanitized
ValidateRowDisplayAsTyped(row, ssum) ==
    LET valid_columns == ValidColumns(ssum, row.TableName)
        row_field_clean == sanitize_field(row.Field)
        row_display_clean == sanitize_field(row.DisplayField)
    IN [row EXCEPT
          !.Field = IF ~InList(row_field_clean, valid_columns)
                    THEN RecordID ELSE row_field_clean,
          !.DisplayField = IF ~InList(row_display_clean, valid_columns)
                              /\ row_display_clean # RecordID
                           THEN RecordID ELSE row.DisplayField]

\* Step 2, the body of the loop over the rows
ValidateRow(row, ssum) ==
    LET valid_columns == ValidColumns(ssum, row.TableName)
        row_field_clean == sanitize_field(row.Field)
        row_display_clean == sanitize_field(row.DisplayField)
    IN [row EXCEPT
          !.Field = IF ~InList(row_field_clean, valid_columns)
                    THEN RecordID ELSE row_field_clean,
          !.DisplayField = IF ~InList(row_display_clean, valid_columns)
                              /\ row_display_clean # RecordID
                           THEN RecordID ELSE row_display_clean]

validate_fields(d, s) ==
    IF d = <<>> THEN <<>>
    ELSE [i \in 1..Len(d) |-> ValidateRow(d[i], SanitizedSummary(s))]

\* sanitize_field(row["Field"]) or sanitize_field(row["Display Field"]) is
\* called on a value that is no str and has no replace(): AttributeError
ValidateRaises(d) ==
    \E i \in 1..Len(d) : ~IsStr(d[i].Field) \/ ~IsStr(d[i].DisplayField)

(***************************************************************************)
(* Inputs of the table pipeline                                            *)
(***************************************************************************)
MaxTableRows == 2

sOrders == <<"O","r","d","e","r","s">>
sItems == <<"I","t","e","m","s">>
sGhost == <<"G","h","o","s","t">>
sOrder_ID == <<"O","r","d","e","r","_","I","D">>
sOrderID == <<"O","r","d","e","r","I","D">>
sStatus == <<"S","t","a","t","u","s">>
sBogus == <<"B","o","g","u","s">>
sItemCode == <<"I","t","e","m",".","C","o","d","e">>
sText == <<"T","e","x","t">>

\* user_data_summary as read from the user's workbook
Summaries ==
    { (sOrders :> <<sOrder_ID, sStatus>>),
      (sOrders :> <<sOrderID, sStatus>>) @@ (sItems :> <<sItemCode, RecordID>>) }

TableRowPalette ==
    [TableName : {sOrders, sGhost},
     Field : {sOrder_ID, sBogus, RecordID},
     DisplayField : {sOrder_ID, sBogus, RecordID},
     DataType : {sText}]

\* rows of Orders whose Display Field sanitizes to "Record ID", and rows
\* whose Field or Display Field is a JSON null and no string
sRecord_ID_Underscored == <<"R","e","c","o","r","d","_"," ","I","D">>

TableRowPaletteNull ==
    [TableName : {sOrders},
     Field : {sOrder_ID, NaN},
     DisplayField : {sRecord_ID_Underscored, sStatus, NaN},
     DataType : {sText}]

TableTables ==
    UNION {[1..n -> TableRowPalette] : n \in 0..MaxTableRows}
        \cup UNION {[1..n -> TableRowPaletteNull] : n \in 1..MaxTableRows}

(***************************************************************************)
(* The validation pass alone                                               *)
(***************************************************************************)
InitTable ==
    /\ summary \in Summaries
    /\ raw \in TableTables
    /\ df = raw
    /\ pc = "validate"
    /\ stages = <<>>
    /\ written = <<>>
    /\ output_file = FALSE

ValidateFields ==
    /\ pc = "validate"
    /\ IF ValidateRaises(df)
       THEN pc' = "raised" /\ UNCHANGED df
       ELSE pc' = "validated" /\ df' = validate_fields(df, summary)
    /\ stages' = Append(stages, "validate_fields")
    /\ UNCHANGED <<raw, summary, written>>
    /\ UNCHANGED output_file

NextTable == ValidateFields

SpecTable == InitTable /\ [][NextTable]_vars

(***************************************************************************)
(* C1: after validate_fields every row's Field is sanitize(original Field) *)
(* when that form is one of the valid columns of the row's table, and the  *)
(* fallback "Record ID" otherwise, an unknown table included; with valid   *)
(* columns {"OrderID","Status"}, "Order_ID" becomes "OrderID" and "Bogus"  *)
(* becomes "Record ID".                                                    *)
(***************************************************************************)
ValidColumnSet(t) ==
    IF t \in DOMAIN summary
    THEN {sanitize_field(summary[t][k]) : k \in 1..Len(summary[t])}
    ELSE {}

C1_FieldValidated ==
    pc = "validated" =>
        /\ Len(df) = Len(raw)
        /\ \A i \in 1..Len(raw) :
            /\ df[i].Field =
                 IF sanitize_field(raw[i].Field) \in ValidColumnSet(raw[i].TableName)
                 THEN sanitize_field(raw[i].Field) ELSE RecordID
            /\ (ValidColumnSet(raw[i].TableName) = {sOrderID, sStatus}
                  /\ raw[i].Field = sOrder_ID) => df[i].Field = sOrderID
            /\ (ValidColumnSet(raw[i].TableName) = {sOrderID, sStatus}
                  /\ raw[i].Field = sBogus) => df[i].Field = RecordID
            /\ raw[i].TableName \notin DOMAIN summary => df[i].Field = RecordID

C1_Witness ==
    /\ pc = "validated"
    /\ Len(raw) = 2
    /\ ValidColumnSet(raw[1].TableName) = {sOrderID, sStatus}
    /\ raw[1].Field = sOrder_ID /\ df[1].Field = sOrderID
    /\ raw[2].Field = sBogus /\ df[2].Field = RecordID

(***************************************************************************)
(* DashboardGeneratorAI.assign_ids                                         *)
(***************************************************************************)
Digits == <<"0","1","2","3","4","5","6","7","8","9">>

\* str(n) for an int n >= 0
RECURSIVE IntToStr(_)
IntToStr(n) ==
    IF n < 10 THEN <<Digits[n + 1]>>
    ELSE IntToStr(n \div 10) \o <<Digits[(n % 10) + 1]>>

\* f"{row['Module']}|{row['Dashboard']}"
dashboard_key(row) == row.Module \o <<"|">> \o row.Dashboard

\* a loop that takes a fresh number for every row (what AssignLoop must not do)
RECURSIVE AssignLoopEveryRow(_, _, _, _)
AssignLoopEveryRow(d, i, element_counter, dashboard_map) ==
    IF i > Len(d) THEN d
    ELSE AssignLoopEveryRow(
             [d EXCEPT ![i].ElementId = IntToStr(element_counter)],
             i + 1, element_counter + 1, dashboard_map)

\* the loop over df.iterrows(), from row i on
RECURSIVE AssignLoop(_, _, _, _)
AssignLoop(d, i, element_counter, dashboard_map) ==
    IF i > Len(d) THEN d
    ELSE LET key == dashboard_key(d[i])
             seen == key \in DOMAIN dashboard_map
             map2 == IF seen THEN dashboard_map
                     ELSE dashboard_map @@ (key :> element_counter)
             counter2 == IF seen THEN element_counter ELSE element_counter + 1
         IN AssignLoop([d EXCEPT ![i].ElementId = IntToStr(map2[key])],
                       i + 1, counter2, map2)

EmptyMap == [k \in {} |-> 0]

\* variant: the counter goes on from the ids of the frame of the call before
assign_ids_continuing(d) ==
    AssignLoop(d, 1, 1 + Cardinality({df[i].ElementId : i \in 1..Len(df)}), EmptyMap)
assign_ids(d) == AssignLoop(d, 1, 1, EmptyMap)

(***************************************************************************)
(* Inputs of the id assignment                                             *)
(***************************************************************************)
MaxIdRows == 4

sM1 == <<"M","1">>
sM2 == <<"M","2">>
sD1 == <<"D","1">>
sD2 == <<"D","2">>
sA == <<"A">>
sC == <<"C">>
sAbarB == <<"A","|","B">>
sBbarC == <<"B","|","C">>
sEmpty == <<>>
s7 == <<"7">>

IdRow(m, d, e) == [Module |-> m, Dashboard |-> d, ElementId |-> e]

IdRowPalette ==
    { IdRow(sM1, sD1, sEmpty), IdRow(sM1, sD2, sEmpty), IdRow(sM2, sD1, sEmpty),
      IdRow(sM2, sD2, s7), IdRow(sAbarB, sC, sEmpty), IdRow(sA, sBbarC, sEmpty) }

IdTables == UNION {[1..n -> IdRowPalette] : n \in 0..MaxIdRows}

InitIds ==
    /\ summary = EmptyMap
    /\ raw \in IdTables
    /\ df = raw
    /\ pc = "assign"
    /\ stages = <<>>
    /\ written = <<>>
    /\ output_file = FALSE

AssignIds ==
    /\ pc = "assign"
    /\ df' = assign_ids(df)
    /\ pc' = "assigned"
    /\ stages' = Append(stages, "assign_ids")
    /\ UNCHANGED <<raw, summary, written>>
    /\ UNCHANGED output_file

NextIds == AssignIds

SpecIds == InitIds /\ [][NextIds]_vars

(***************************************************************************)
(* C3: assign_ids stamps every row with the decimal string of the number   *)
(* its key module|dashboard got; numbers start at 1 and a new one is taken *)
(* only at the first sight of a key, in row order.  Rows (M1,D1),(M1,D1),  *)
(* (M1,D2),(M2,D1) get "1","1","2","3", and the first occurrences of k     *)
(* distinct keys carry "1".."k" in first-seen order.                       *)
(***************************************************************************)
KeyOf(i) == raw[i].Module \o <<"|">> \o raw[i].Dashboard

IsFirstSight(i) == \A j \in 1..(i - 1) : KeyOf(j) # KeyOf(i)

\* how many distinct keys the rows 1..i hold
KeysUpTo(i) == Cardinality({KeyOf(j) : j \in 1..i})

C3_IdsByFirstSight ==
    pc = "assigned" =>
        /\ Len(df) = Len(raw)
        /\ \A i \in 1..Len(raw) :
            /\ IsFirstSight(i) => df[i].ElementId = IntToStr(KeysUpTo(i))
            /\ \A j \in 1..(i - 1) :
                   KeyOf(j) = KeyOf(i) => df[i].ElementId = df[j].ElementId
            /\ df[i].Module = raw[i].Module /\ df[i].Dashboard = raw[i].Dashboard
        /\ ( /\ Len(raw) = 4
             /\ <<raw[1].Module, raw[1].Dashboard>> = <<sM1, sD1>>
             /\ <<raw[2].Module, raw[2].Dashboard>> = <<sM1, sD1>>
             /\ <<raw[3].Module, raw[3].Dashboard>> = <<sM1, sD2>>
             /\ <<raw[4].Module, raw[4].Dashboard>> = <<sM2, sD1>> )
           => [i \in 1..4 |-> df[i].ElementId] = << <<"1">>, <<"1">>, <<"2">>, <<"3">> >>

C3_Witness ==
    /\ pc = "assigned"
    /\ Len(raw) = 4
    /\ <<raw[1].Module, raw[1].Dashboard>> = <<sM1, sD1>>
    /\ <<raw[2].Module, raw[2].Dashboard>> = <<sM1, sD1>>
    /\ <<raw[3].Module, raw[3].Dashboard>> = <<sM1, sD2>>
    /\ <<raw[4].Module, raw[4].Dashboard>> = <<sM2, sD1>>
    /\ df[4].ElementId = <<"3">>

(***************************************************************************)
(* PositionalAligner: constants and helpers                                *)
(***************************************************************************)
HORIZONTAL_STEP == 60
VERTICAL_STEP == 55
INITIAL_X == 3
INITIAL_Y == 5

ID_PATTERN == <<<<"i","d">>, <<"c","o","d","e">>, <<"n","u","m","b","e","r">>, <<"k","e","y">>>>
DATE_PATTERN == <<<<"d","a","t","e">>, <<"c","r","e","a","t","e","d">>, <<"m","o","d","i","f","i","e","d">>, <<"t","i","m","e">>>>

sReport == <<"R","e","p","o","r","t">>
sTable == <<"T","a","b","l","e">>
sReportSummary == <<"R","e","p","o","r","t"," ","S","u","m","m","a","r","y">>
sList == <<"L","i","s","t">>



Max(a, b) == IF a >= b THEN a ELSE b
Min(a, b) == IF a <= b THEN a ELSE b

\* Series.unique(): the distinct values in order of first appearance
RECURSIVE Unique(_)
Unique(values) ==
    IF values = <<>> THEN <<>>
    ELSE LET init == Unique(SubSeq(values, 1, Len(values) - 1))
             last == values[Len(values)]
         IN IF InList(last, init) THEN init ELSE Append(init, last)

\* a column of the DataFrame as a list
Column(d, col) == IF d = <<>> THEN <<>> ELSE [i \in 1..Len(d) |-> d[i][col]]

\* the index of the rows selected by a mask, in row order
RECURSIVE IndexWhere(_, _)
IndexWhere(mask, i) ==
    IF i > Len(mask) THEN <<>>
    ELSE (IF mask[i] THEN <<i>> ELSE <<>>) \o IndexWhere(mask, i + 1)

\* df[col] == value, as a mask over the rows
MaskEq(d, col, value) ==
    IF d = <<>> THEN <<>> ELSE [i \in 1..Len(d) |-> d[i][col] = value]

(***************************************************************************)
(* PositionalAligner.initialize_dataframe_columns                          *)
(***************************************************************************)
DefaultColumns ==
    [PosX |-> 0, PosY |-> 0, Width |-> 6, Height |-> 14,
     PosX1 |-> INITIAL_X, PosY1 |-> INITIAL_Y, Width1 |-> 50, Height1 |-> 50,
     Color |-> 0, BackgroundColor |-> 0, Font |-> 0, FontSize |-> 0,
     Color1 |-> 0, BackgroundColor1 |-> 0, Font1 |-> 0, Size |-> 0,
     ColorL |-> 0, BackgroundColorL |-> 0, FontL |-> 0, SizeL |-> 0]

\* every column that is not yet a column of the frame gets its default
initialize_dataframe_columns(d) ==
    IF d = <<>> THEN <<>> ELSE [i \in 1..Len(d) |-> d[i] @@ DefaultColumns]

(***************************************************************************)
(* PositionalAligner.position_dashboard_panels_by_module                   *)
(***************************************************************************)
\* math.ceil(k / 2) for an int k >= 0
CeilHalf(k) == IF k % 2 = 0 THEN k \div 2 ELSE (k \div 2) + 1

\* a panel that is always 6 wide (what PanelWidth must not do)
PanelWidthNoReport(d, elements) == 6

PanelWidth(d, elements) ==
    IF \E k \in 1..Len(elements) : d[elements[k]].ObjectType = sReport
    THEN 6 + 3 ELSE 6

PanelHeight(d, elements) ==
    LET field_count == Len(elements)
        h1 == IF field_count > 8 THEN 14 + CeilHalf(field_count - 8) * 2 ELSE 14
    IN IF \E k \in 1..Len(elements) : d[elements[k]].ViewType = sReportSummary
       THEN h1 + 4 ELSE h1

\* only the first row of the panel is written (what PlacePanel must not do)
PlacePanelFirstRowOnly(d, elements, x, y, width, height) ==
    [i \in 1..Len(d) |->
        IF i = elements[1]
        THEN [d[i] EXCEPT !.PosX = x, !.PosY = y, !.Width = width, !.Height = height]
        ELSE d[i]]

\* for idx in dashboard_elements.index: the four cells of every row of the panel
PlacePanel(d, elements, x, y, width, height) ==
    [i \in 1..Len(d) |->
        IF InList(i, elements)
        THEN [d[i] EXCEPT !.PosX = x, !.PosY = y, !.Width = width, !.Height = height]
        ELSE d[i]]

\* a cursor that wraps only beyond 18 (what WrapsAt must not do)
WrapsAtBeyond(current_x) == current_x > 18

\* if current_x >= 18
WrapsAt(current_x) == current_x >= 18

\* variant: on a wrap the cursor goes down by the height of the last panel
AfterPanelLastHeight(current_x, current_y, max_height_in_row, width, height) ==
    LET mh == Max(max_height_in_row, height)
        cx == current_x + width
    IN IF WrapsAt(cx)
       THEN [x |-> 0, y |-> current_y + height + 5, mh |-> 0]
       ELSE [x |-> cx, y |-> current_y, mh |-> mh]

\* the cursor after a panel of the given size was placed
AfterPanel(current_x, current_y, max_height_in_row, width, height) ==
    LET mh == Max(max_height_in_row, height)
        cx == current_x + width
    IN IF WrapsAt(cx)
       THEN [x |-> 0, y |-> current_y + mh + 5, mh |-> 0]
       ELSE [x |-> cx, y |-> current_y, mh |-> mh]

\* module_df[module_df["Dashboard"] == dashboard].index
PanelElements(d, module, dashboard) ==
    LET inModule == MaskEq(d, "Module", module)
        inDashboard == MaskEq(d, "Dashboard", dashboard)
    IN IndexWhere(IF d = <<>> THEN <<>>
                  ELSE [i \in 1..Len(d) |-> inModule[i] /\ inDashboard[i]], 1)

\* for dashboard in dashboards, from the k-th on
RECURSIVE PanelLoop(_, _, _, _, _, _, _)
PanelLoop(d, module, dashboards, k, current_x, current_y, max_height_in_row) ==
    IF k > Len(dashboards) THEN d
    ELSE LET elements == PanelElements(d, module, dashboards[k])
             width == PanelWidth(d, elements)
             height == PanelHeight(d, elements)
             cur == AfterPanel(current_x, current_y, max_height_in_row, width, height)
         IN PanelLoop(PlacePanel(d, elements, current_x, current_y, width, height),
                      module, dashboards, k + 1, cur.x, cur.y, cur.mh)

\* module_df["Dashboard"].unique()
DashboardsOf(d, module) ==
    LET idx == IndexWhere(MaskEq(d, "Module", module), 1)
    IN Unique(IF idx = <<>> THEN <<>>
              ELSE [k \in 1..Len(idx) |-> d[idx[k]].Dashboard])

\* variant: the cursor of the m-th module starts one band further down
RECURSIVE ModuleLoopStacked(_, _, _)
ModuleLoopStacked(d, modules, m) ==
    IF m > Len(modules) THEN d
    ELSE ModuleLoopStacked(
             PanelLoop(d, modules[m], DashboardsOf(d, modules[m]), 1, 0, (m - 1) * 19, 0),
             modules, m + 1)

\* for module in modules, from the m-th on
RECURSIVE ModuleLoop(_, _, _)
ModuleLoop(d, modules, m) ==
    IF m > Len(modules) THEN d
    ELSE ModuleLoop(PanelLoop(d, modules[m], DashboardsOf(d, modules[m]), 1, 0, 0, 0),
                    modules, m + 1)

position_dashboard_panels_by_module(d, modules) == ModuleLoop(d, modules, 1)

(***************************************************************************)
(* PositionalAligner.position_dashboard_fields                             *)
(***************************************************************************)
\* math.ceil(math.sqrt(n)) for an int n >= 0
CeilSqrt(n) == CHOOSE k \in 0..n : k * k >= n /\ \A j \in 0..(k - 1) : j * j < n

\* a sub-grid that is always 3 columns wide (the unused COLUMN_COUNT)
ColumnCountFixed(field_count) == 3

\* min(max(1, math.ceil(math.sqrt(field_count))), 4)
ColumnCount(field_count) == Min(Max(1, CeilSqrt(field_count)), 4)

id_patterns == <<<<"i","d">>, <<"c","o","d","e">>, <<"n","u","m","b","e","r">>, <<"k","e","y">>>>
name_patterns == <<<<"n","a","m","e">>, <<"t","i","t","l","e">>, <<"l","a","b","e","l">>>>
date_patterns == <<<<"d","a","t","e">>, <<"c","r","e","a","t","e","d">>, <<"m","o","d","i","f","i","e","d">>, <<"t","i","m","e">>>>
status_patterns == <<<<"s","t","a","t","u","s">>, <<"s","t","a","t","e">>, <<"c","o","n","d","i","t","i","o","n">>, <<"p","h","a","s","e">>>>
amount_patterns == <<<<"a","m","o","u","n","t">>, <<"p","r","i","c","e">>, <<"c","o","s","t">>, <<"v","a","l","u","e">>, <<"t","o","t","a","l">>>>
contact_patterns == <<<<"e","m","a","i","l">>, <<"p","h","o","n","e">>, <<"c","o","n","t","a","c","t">>, <<"a","d","d","r","e","s","s">>>>
size_patterns == <<<<"d","e","s","c","r","i","p","t","i","o","n">>, <<"c","o","m","m","e","n","t">>, <<"n","o","t","e","s">>>>

priority_map ==
    << <<id_patterns, -10>>, <<name_patterns, -5>>, <<date_patterns, 0>>,
       <<status_patterns, 5>>, <<amount_patterns, 10>>, <<contact_patterns, 15>> >>

\* field.lower().replace('-', ' ').replace('_', ' ')
Normalize(field) ==
    StrReplace(StrReplace(StrLower(field), <<"-">>, <<" ">>), <<"_">>, <<" ">>)

\* for pattern_list, score in priority_map: the first list that matches
RECURSIVE FirstMatch(_, _, _)
FirstMatch(pmap, k, field_lower) ==
    IF k > Len(pmap) THEN 20
    ELSE IF AnyIn(pmap[k][1], field_lower) THEN pmap[k][2]
         ELSE FirstMatch(pmap, k + 1, field_lower)

\* variant: a value that is no str gets the fallback score of a str
advanced_field_priority_fallback(field) ==
    IF ~IsStr(field) THEN 20
    ELSE FirstMatch(priority_map, 1, Normalize(field))
advanced_field_priority(field) ==
    IF ~IsStr(field) THEN 100
    ELSE FirstMatch(priority_map, 1, Normalize(field))

\* an insertion in front of the rows of equal score (an unstable sort)
InsertByKeyBefore(sorted, idx, d) ==
    LET key == advanced_field_priority(d[idx].Field)
        n == Cardinality({k \in 1..Len(sorted) :
                 advanced_field_priority(d[sorted[k]].Field) < key})
    IN SubSeq(sorted, 1, n) \o <<idx>> \o SubSeq(sorted, n + 1, Len(sorted))

\* sorted() is stable: idx goes behind every row whose score is not larger
InsertByKey(sorted, idx, d) ==
    LET key == advanced_field_priority(d[idx].Field)
        n == Cardinality({k \in 1..Len(sorted) :
                 advanced_field_priority(d[sorted[k]].Field) <= key})
    IN SubSeq(sorted, 1, n) \o <<idx>> \o SubSeq(sorted, n + 1, Len(sorted))

\* sorted(field_indices, key=...)
RECURSIVE SortedIndices(_, _)
SortedIndices(field_indices, d) ==
    IF field_indices = <<>> THEN <<>>
    ELSE InsertByKey(SortedIndices(SubSeq(field_indices, 1, Len(field_indices) - 1), d),
                     field_indices[Len(field_indices)], d)

\* a size that tests the id patterns before the date patterns
FieldSizeIdFirst(field_name) ==
    LET normalized_field == Normalize(field_name)
        base == IF AnyIn(size_patterns, normalized_field) THEN [w |-> 100, h |-> 100]
                ELSE IF AnyIn(ID_PATTERN, normalized_field) THEN [w |-> 50, h |-> 50]
                ELSE IF AnyIn(DATE_PATTERN, normalized_field) THEN [w |-> 50, h |-> 64]
                ELSE [w |-> 50, h |-> 74]
    IN IF Len(field_name) > 15
       THEN [w |-> Min((base.w * 3) \div 2, 100), h |-> base.h]
       ELSE base

\* field_width, field_height of a str field name; 1.5 * width is exact for 50, 100
FieldSize(field_name) ==
    LET normalized_field == Normalize(field_name)
        base == IF AnyIn(size_patterns, normalized_field) THEN [w |-> 100, h |-> 100]
                ELSE IF AnyIn(DATE_PATTERN, normalized_field) THEN [w |-> 50, h |-> 64]
                ELSE IF AnyIn(ID_PATTERN, normalized_field) THEN [w |-> 50, h |-> 50]
                ELSE [w |-> 50, h |-> 74]
    IN IF Len(field_name) > 15
       THEN [w |-> Min((base.w * 3) \div 2, 100), h |-> base.h]
       ELSE base

\* the body of: for position, idx in enumerate(sorted_indices)
PlaceField(d, position, idx, column_count) ==
    LET col == (position - 1) % column_count
        row == (position - 1) \div column_count
        x_pos == INITIAL_X + (col * HORIZONTAL_STEP)
        y_pos == INITIAL_Y + (row * VERTICAL_STEP)
        field_name == d[idx].Field
        placed == [d[idx] EXCEPT !.PosX1 = x_pos, !.PosY1 = y_pos]
    IN [d EXCEPT ![idx] =
          IF IsStr(field_name)
          THEN [placed EXCEPT !.Width1 = FieldSize(field_name).w,
                              !.Height1 = FieldSize(field_name).h]
          ELSE placed]

\* sorted_indices[position] for position = 1..Len (enumerate counts from 0)
RECURSIVE FieldLoop(_, _, _, _)
FieldLoop(d, sorted_indices, position, column_count) ==
    IF position > Len(sorted_indices) THEN d
    ELSE FieldLoop(PlaceField(d, position, sorted_indices[position], column_count),
                   sorted_indices, position + 1, column_count)

\* variant: the group is cut down to the module of its first row
DashboardRowIndicesOfOneModule(d, dashboard) ==
    LET named == IndexWhere(MaskEq(d, "Dashboard", dashboard), 1)
    IN IndexWhere([j \in 1..Len(d) |->
                      d[j].Dashboard = dashboard /\ d[j].Module = d[named[1]].Module], 1)

\* the index of dashboard_df = self.df[self.df["Dashboard"] == dashboard]
DashboardRowIndices(d, dashboard) ==
    IndexWhere(MaskEq(d, "Dashboard", dashboard), 1)

\* for dashboard in self.df["Dashboard"].unique(), from the k-th on
RECURSIVE DashboardLoop(_, _, _)
DashboardLoop(d, dashboards, k) ==
    IF k > Len(dashboards) THEN d
    ELSE LET field_indices == DashboardRowIndices(d, dashboards[k])
             column_count == ColumnCount(Len(field_indices))
         IN DashboardLoop(
                FieldLoop(d, SortedIndices(field_indices, d), 1, column_count),
                dashboards, k + 1)

position_dashboard_fields(d) == DashboardLoop(d, Unique(Column(d, "Dashboard")), 1)

(***************************************************************************)
(* PositionalAligner.generate_view_type_attributes                         *)
(***************************************************************************)
sRecordIdLower == <<"r","e","c","o","r","d"," ","i","d">>
sAttrSlots == <<":",":","F","a","l","s","e",":",":","0",":",":","0">>
sBar == <<"|">>
sColons == <<":",":">>

\* sep.join(parts)
RECURSIVE StrJoin(_, _)
StrJoin(parts, sep) ==
    IF parts = <<>> THEN <<>>
    ELSE IF Len(parts) = 1 THEN parts[1]
    ELSE parts[1] \o sep \o StrJoin(Tail(parts), sep)

\* s.split(sep) for a non-empty sep
RECURSIVE StrSplit(_, _)
StrSplit(s, sep) ==
    IF ~StrContains(s, sep) THEN <<s>>
    ELSE LET i == CHOOSE k \in 0..(Len(s) - Len(sep)) :
                      /\ SubSeq(s, k + 1, k + Len(sep)) = sep
                      /\ \A j \in 0..(k - 1) : SubSeq(s, j + 1, j + Len(sep)) # sep
         IN <<SubSeq(s, 1, i)>> \o StrSplit(SubSeq(s, i + Len(sep) + 1, Len(s)), sep)

\* field.replace(" ", "").strip()
clean_field(field) == StrStrip(StrReplace(field, <<" ">>, <<>>))

\* f.strip().lower() != "record id"
NotRecordId(f) == StrLower(StrStrip(f)) # sRecordIdLower

\* group['Field'].dropna().astype(str).unique().tolist() of the group of row i
GroupFieldNames(d, i) ==
    LET same == [j \in 1..Len(d) |->
                    /\ d[j].Dashboard = d[i].Dashboard
                    /\ d[j].ObjectName = d[i].ObjectName
                    /\ d[j].ViewType = d[i].ViewType
                    /\ d[j].Field # NaN]
        idx == IndexWhere(same, 1)
    IN Unique(IF idx = <<>> THEN <<>> ELSE [k \in 1..Len(idx) |-> d[idx[k]].Field])

\* variant: the "record id" fields are not left out
GroupAttrStringKeepsRecordId(d, i) ==
    LET kept == GroupFieldNames(d, i)
        segments == IF kept = <<>> THEN <<>>
                    ELSE [k \in 1..Len(kept) |-> clean_field(kept[k]) \o sAttrSlots]
    IN StrJoin(segments, sBar)

\* attr_string of the group of row i
GroupAttrString(d, i) ==
    LET kept == SelectSeq(GroupFieldNames(d, i), NotRecordId)
        segments == IF kept = <<>> THEN <<>>
                    ELSE [k \in 1..Len(kept) |-> clean_field(kept[k]) \o sAttrSlots]
    IN StrJoin(segments, sBar)

generate_view_type_attributes(d) ==
    IF d = <<>> THEN <<>>
    ELSE LET withColumn == [i \in 1..Len(d) |-> d[i] @@ [VTA |-> <<>>]]
         IN [i \in 1..Len(d) |->
                [withColumn[i] EXCEPT !.VTA = GroupAttrString(withColumn, i)]]

(***************************************************************************)
(* clean_dashboard_fields                                                  *)
(***************************************************************************)
sSpaceDashboard == <<" ","D","a","s","h","b","o","a","r","d">>
sNan == <<"n","a","n">>

\* Series.astype(str) of one cell
AsStr(v) == IF IsStr(v) THEN v ELSE sNan

\* one segment of the attribute string, its name part sanitized
CleanAttr(attr) ==
    LET field_parts == StrSplit(attr, sColons)
    IN sanitize_field(field_parts[1]) \o sColons \o field_parts[2] \o sColons
         \o field_parts[3] \o sColons \o field_parts[4]

\* the new attribute string of a row that holds a non-empty one
CleanAttrString(vta) ==
    LET attrs == StrSplit(vta, sBar)
    IN StrJoin([k \in 1..Len(attrs) |-> CleanAttr(attrs[k])], sBar)

\* field_parts[3] of some segment does not exist: IndexError
CleanRaises(d) ==
    \E i \in 1..Len(d) :
        /\ "VTA" \in DOMAIN d[i]
        /\ d[i].VTA # <<>>
        /\ \E k \in 1..Len(StrSplit(d[i].VTA, sBar)) :
               Len(StrSplit(StrSplit(d[i].VTA, sBar)[k], sColons)) < 4

CleanRow(row) ==
    LET named == [row EXCEPT
                    !.Dashboard = StrStrip(StrReplace(AsStr(row.Dashboard),
                                                      sSpaceDashboard, <<>>)),
                    !.Module = StrStrip(AsStr(row.Module)),
                    !.ObjectName = StrStrip(AsStr(row.ObjectName)),
                    !.Field = StrStrip(sanitize_field(AsStr(row.Field)))]
    IN IF "VTA" \in DOMAIN row /\ row.VTA # <<>>
       THEN [named EXCEPT !.VTA = CleanAttrString(row.VTA)]
       ELSE named

clean_dashboard_fields(d) ==
    IF d = <<>> THEN <<>> ELSE [i \in 1..Len(d) |-> CleanRow(d[i])]

(***************************************************************************)
(* DashboardGeneratorAI.parse_ai_response                                  *)
(***************************************************************************)
\* the columns of MANDATORY_COLUMNS that a later pass reads; the boolean
\* display flags are filled with "FALSE" and read by no pass
MandatoryDefaults ==
    [Module |-> <<>>, Dashboard |-> <<>>, ElementId |-> <<>>, ObjectType |-> <<>>,
     ObjectName |-> <<>>, ViewType |-> <<>>, Field |-> <<>>]

parse_ai_response(rows) ==
    assign_ids(IF rows = <<>> THEN <<>>
               ELSE [i \in 1..Len(rows) |-> rows[i] @@ MandatoryDefaults])

(***************************************************************************)
(* Inputs of the layout passes                                             *)
(***************************************************************************)
MaxMixRows == 2
MaxFieldRows == 3
MaxPanels == 7
MaxGroupRows == 11

sDescription == <<"D","e","s","c","r","i","p","t","i","o","n">>
sCreatedDate == <<"C","r","e","a","t","e","d","D","a","t","e">>
sNotes == <<"N","o","t","e","s">>
sModifiedDate == <<"M","o","d","i","f","i","e","d","D","a","t","e">>
sWarehouseLocationZone == <<"W","a","r","e","h","o","u","s","e","L","o","c","a","t","i","o","n","Z","o","n","e">>
sI_D == <<"I","_","D">>
sStatus_Code == <<"S","t","a","t","u","s","_","C","o","d","e">>
sTotal_Amount == <<"T","o","t","a","l","_","A","m","o","u","n","t">>
sEmail == <<"E","m","a","i","l">>
sCustomer_Name == <<"C","u","s","t","o","m","e","r","_","N","a","m","e">>
sLast_Modified_Datetime == <<"L","a","s","t","_","M","o","d","i","f","i","e","d","_","D","a","t","e","t","i","m","e">>
sDescription_Of_Product == <<"D","e","s","c","r","i","p","t","i","o","n","_","O","f","_","P","r","o","d","u","c","t">>
sPaid_Date == <<"P","a","i","d","_","D","a","t","e">>
sSales == <<"S","a","l","e","s">>
sOrdersDashboard == <<"O","r","d","e","r","s"," ","D","a","s","h","b","o","a","r","d">>
s1 == <<"1">>

LRow(m, d, ot, vt, f) ==
    [Module |-> m, Dashboard |-> d, ElementId |-> s1, ObjectType |-> ot,
     ObjectName |-> sOrders, ViewType |-> vt, Field |-> f]

\* short tables over every mix of two modules, two dashboards and the types
MixPalette ==
    {LRow(m, d, t[1], t[2], sStatus) :
        m \in {sM1, sM2}, d \in {sD1, sD2},
        t \in {<<sTable, sList>>, <<sReport, sReportSummary>>}}

MixTables == UNION {[1..n -> MixPalette] : n \in 0..MaxMixRows}

\* short tables of one dashboard over every order of the field names
FieldPalette ==
    {sOrderID, sStatus_Code, sPaid_Date, sCreatedDate, sDescription, NaN}

FieldTables ==
    UNION {[1..n -> {LRow(sM1, sD1, sTable, sList, f) : f \in FieldPalette}] :
              n \in 1..MaxFieldRows}

\* one module of n one-row dashboards D1..Dn; the dashboards of reports hold a
\* Report row, dashboard summaryAt a Report Summary view
PanelTable(n, reports, summaryAt) ==
    [i \in 1..n |->
        LRow(sM1, <<"D">> \o IntToStr(i),
             IF i \in reports THEN sReport ELSE sTable,
             IF i = summaryAt THEN sReportSummary ELSE sList, sStatus)]

PanelTables ==
    {PanelTable(n, reports, summaryAt) :
        <<n, reports, summaryAt>> \in
            UNION {{n2} \X (SUBSET (1..n2)) \X (0..n2) : n2 \in 1..MaxPanels}}

\* one dashboard of n rows whose fields run through FieldList from an offset
FieldList ==
    <<sDescription, sOrderID, sCreatedDate, sCustomer_Name, sStatus, sTotal_Amount,
      sEmail, sNotes, sModifiedDate, sWarehouseLocationZone, sI_D, sStatus_Code,
      sLast_Modified_Datetime, sDescription_Of_Product, sPaid_Date>>

GroupTable(n, offset, report, summaryView) ==
    [i \in 1..n |->
        LRow(sM1, sD1,
             IF report /\ i = n THEN sReport ELSE sTable,
             IF summaryView /\ i = 1 THEN sReportSummary ELSE sList,
             FieldList[((offset + i) % Len(FieldList)) + 1])]

GroupTables ==
    {GroupTable(n, offset, report, summaryView) :
        n \in 1..MaxGroupRows, offset \in 0..(Len(FieldList) - 1),
        report \in BOOLEAN, summaryView \in BOOLEAN}

\* short tables of one panel whose field names hold spaces, surrounding
\* whitespace, or the "Record ID" name in two spellings
MaxAttrRows == 3

sOrder_ID_Spaced == <<"O","r","d","e","r"," ","I","D">>
sShip_Date_Spaced == <<"S","h","i","p"," ","D","a","t","e">>
sRecordIdPadded == <<" ","R","E","C","O","R","D"," ","i","d">>
sQtyTabbed == <<"\t","Q","t","y">>

AttrFieldPalette ==
    {sOrder_ID_Spaced, RecordID, sShip_Date_Spaced, sRecordIdPadded, sQtyTabbed}

AttrRowPalette == {LRow(sM1, sD1, sTable, sList, f) : f \in AttrFieldPalette}

AttrTables == UNION {[1..n -> AttrRowPalette] : n \in 1..MaxAttrRows}

LayoutTables ==
    MixTables \cup FieldTables \cup PanelTables \cup GroupTables \cup AttrTables

(***************************************************************************)
(* PositionalAligner.apply_smart_layout, one action per pass               *)
(***************************************************************************)
InitLayout ==
    /\ summary = EmptyMap
    /\ raw \in LayoutTables
    /\ df = raw
    /\ pc = "layout"
    /\ stages = <<>>
    /\ written = <<>>
    /\ output_file = FALSE

InitializeColumns ==
    /\ pc = "layout"
    /\ df' = initialize_dataframe_columns(df)
    /\ pc' = "columns"
    /\ stages' = Append(stages, "initialize_dataframe_columns")
    /\ UNCHANGED <<raw, summary, written>>
    /\ UNCHANGED output_file

PositionPanels ==
    /\ pc = "columns"
    /\ df' = position_dashboard_panels_by_module(df, Unique(Column(df, "Module")))
    /\ pc' = "panels"
    /\ stages' = Append(stages, "position_dashboard_panels_by_module")
    /\ UNCHANGED <<raw, summary, written>>
    /\ UNCHANGED output_file

PositionFields ==
    /\ pc = "panels"
    /\ df' = position_dashboard_fields(df)
    /\ pc' = "fields"
    /\ stages' = Append(stages, "position_dashboard_fields")
    /\ UNCHANGED <<raw, summary, written>>
    /\ UNCHANGED output_file

GenerateViewTypeAttributes ==
    /\ pc = "fields"
    /\ df' = generate_view_type_attributes(df)
    /\ pc' = "attrs"
    /\ stages' = Append(stages, "generate_view_type_attributes")
    /\ UNCHANGED <<raw, summary, written>>
    /\ UNCHANGED output_file

NextLayout ==
    \/ InitializeColumns
    \/ PositionPanels
    \/ PositionFields
    \/ GenerateViewTypeAttributes

SpecLayout == InitLayout /\ [][NextLayout]_vars

(***************************************************************************)
(* main_pipeline of the dashboard generator                                *)
(***************************************************************************)
MaxAiRows == 2

sAttrTwo == <<"O","r","d","e","r","_","I","D",":",":","F","a","l","s","e",":",":","0",":",":","0","|","S","t","a","t","u","s",":",":","F","a","l","s","e",":",":","0",":",":","0">>

AiRow(d, ot, f) ==
    [Module |-> sSales, Dashboard |-> d, ObjectType |-> ot, ObjectName |-> sOrders,
     ViewType |-> sList, Field |-> f]

AiRowPalette ==
    {AiRow(d, ot, f) :
        d \in {sOrders, sOrdersDashboard}, ot \in {sTable, sReport},
        f \in {sOrder_ID, sStatus, sBogus}}

\* a payload whose rows carry a "View Type Attributes" value of their own
AiTablesWithAttributes ==
    {<<AiRow(sOrders, sTable, sStatus) @@ [VTA |-> v]>> : v \in {sEmpty, sAttrTwo, sStatus}}

AiTables ==
    UNION {[1..n -> AiRowPalette] : n \in 0..MaxAiRows} \cup AiTablesWithAttributes

Init ==
    /\ pc = "start"
    /\ df = <<>>
    /\ raw = <<>>
    /\ summary = EmptyMap
    /\ stages = <<>>
    /\ written = <<>>
    /\ output_file \in BOOLEAN

\* loader.load_excel(): True, or an error string and main_pipeline returns None
LoadMetadata ==
    /\ pc = "start"
    /\ \/ /\ pc' = "metadata"
          /\ UNCHANGED stages
       \/ /\ pc' = "none"
          /\ stages' = Append(stages, "Error loading Excel")
    /\ UNCHANGED <<df, raw, summary, written>>
    /\ UNCHANGED output_file

\* variant: the error is printed and the pipeline goes on without tables
LoadUserDataGoesOn ==
    /\ pc = "metadata"
    /\ \/ /\ pc' = "summary"
          /\ summary' \in Summaries
          /\ UNCHANGED stages
       \/ /\ pc' = "summary"
          /\ stages' = Append(stages, "Error loading User Raw Excel")
          /\ UNCHANGED summary
    /\ UNCHANGED <<df, raw, written>>
    /\ UNCHANGED output_file

\* raw_loader.load_user_excel() and summarize_user_data(); on an error
\* string the error is printed and main_pipeline returns None
LoadUserData ==
    /\ pc = "metadata"
    /\ \/ /\ pc' = "summary"
          /\ summary' \in Summaries
          /\ UNCHANGED stages
       \/ /\ pc' = "none"
          /\ stages' = Append(stages, "Error loading User Raw Excel")
          /\ UNCHANGED summary
    /\ UNCHANGED <<df, raw, written>>
    /\ UNCHANGED output_file

\* generator.call_openai(): the completion service answers with some rows
CallOpenAI ==
    /\ pc = "summary"
    /\ raw' \in AiTables
    /\ pc' = "answered"
    /\ stages' = Append(stages, "call_openai")
    /\ UNCHANGED <<df, summary, written>>
    /\ UNCHANGED output_file

ParseAiResponse ==
    /\ pc = "answered"
    /\ df' = parse_ai_response(raw)
    /\ pc' = "parsed"
    /\ stages' = Append(stages, "assign_ids")
    /\ UNCHANGED <<raw, summary, written>>
    /\ UNCHANGED output_file

CleanDashboardFields ==
    /\ pc = "parsed"
    /\ IF CleanRaises(df)
       THEN pc' = "raised" /\ UNCHANGED df
       ELSE pc' = "layout" /\ df' = clean_dashboard_fields(df)
    /\ stages' = Append(stages, "clean_dashboard_fields")
    /\ UNCHANGED <<raw, summary, written>>
    /\ UNCHANGED output_file

\* if output_file: export_full_metadata(loader.data, output_file) and the
\* four inject_dropdowns calls; then return dashboard_df
ReturnFrame ==
    /\ pc = "attrs"
    /\ IF output_file
       THEN /\ written' = Append(written, df)
            /\ stages' = stages \o <<"export_full_metadata", "inject_dropdowns",
                                     "inject_dropdowns", "inject_dropdowns",
                                     "inject_dropdowns">>
       ELSE UNCHANGED <<written, stages>>
    /\ pc' = "done"
    /\ UNCHANGED <<df, raw, summary>>
    /\ UNCHANGED output_file

Next ==
    \/ LoadMetadata
    \/ LoadUserData
    \/ CallOpenAI
    \/ ParseAiResponse
    \/ CleanDashboardFields
    \/ InitializeColumns
    \/ PositionPanels
    \/ PositionFields
    \/ GenerateViewTypeAttributes
    \/ ReturnFrame

Spec == Init /\ [][Next]_vars

(***************************************************************************)
(* C2: in the table the dashboard pipeline returns, every row's Field,     *)
(* once sanitized, is a real column of the table named by the row's        *)
(* Object Name, or the fallback "Record ID".                               *)
(***************************************************************************)
RealColumns(t) ==
    IF t \in DOMAIN summary
    THEN {summary[t][k] : k \in 1..Len(summary[t])}
           \cup {sanitize_field(summary[t][k]) : k \in 1..Len(summary[t])}
    ELSE {}

C2_FieldIsRealColumn ==
    pc = "done" =>
        \A i \in 1..Len(df) :
            sanitize_field(df[i].Field) \in RealColumns(df[i].ObjectName) \cup {RecordID}

(***************************************************************************)
(* C4: in the table the dashboard pipeline returns, any two rows with the  *)
(* same (Module, Dashboard) pair have the same Element Id.                 *)
(***************************************************************************)
SamePanel(i, j) ==
    df[i].Module = df[j].Module /\ df[i].Dashboard = df[j].Dashboard

C4_SamePairSameId ==
    pc = "done" =>
        \A i, j \in 1..Len(df) : SamePanel(i, j) => df[i].ElementId = df[j].ElementId

(***************************************************************************)
(* C5: after the panel layout pass all rows of one (module, dashboard)     *)
(* pair carry one (PosX, PosY, Width, Height), the geometry computed for   *)
(* that panel.                                                             *)
(***************************************************************************)
\* the state the panel pass leaves; no later pass writes a panel column
PanelsPlaced == pc = "panels"

PanelGeometry(i) == <<df[i].PosX, df[i].PosY, df[i].Width, df[i].Height>>

PanelRows(i) == {j \in 1..Len(df) : SamePanel(i, j)}

\* the rows of the panel of row i, in row order
PanelRowSeq(i) ==
    IndexWhere([j \in 1..Len(df) |-> SamePanel(i, j)], 1)

C5_PanelGeometryShared ==
    PanelsPlaced =>
        \A i \in 1..Len(df) :
            /\ \A j \in PanelRows(i) : PanelGeometry(j) = PanelGeometry(i)
            /\ df[i].Width = PanelWidth(df, PanelRowSeq(i))
            /\ df[i].Height = PanelHeight(df, PanelRowSeq(i))

C5_Witness ==
    /\ pc = "panels"
    /\ \E i, j \in 1..Len(df) :
          /\ i + 1 < j
          /\ SamePanel(i, j)
          /\ df[j].Width = 9
          /\ df[j].Height > 14

(***************************************************************************)
(* C6: within a module the dashboards are placed in first-seen order along *)
(* a cursor that starts at (0,0): the next panel starts where the last one *)
(* ended, and once the cursor reaches 18 or more it wraps to x = 0, below  *)
(* the tallest panel placed since the last wrap plus 5.  Six panels of     *)
(* width 6 get x = 0,6,12,0,6,12 and the second band starts at the height  *)
(* of the first band plus 5.                                               *)
(***************************************************************************)
SetMax(S) == CHOOSE x \in S : \A y \in S : y <= x

\* the first row of each panel stands for the panel
IsPanelHead(i) == \A j \in 1..(i - 1) : ~SamePanel(i, j)

Heads(m) == {i \in 1..Len(df) : df[i].Module = m /\ IsPanelHead(i)}

\* the k-th panel of module m in first-seen order
HeadAt(m, k) ==
    CHOOSE h \in Heads(m) : Cardinality({g \in Heads(m) : g < h}) = k - 1

\* the panels placed since the last wrap, up to panel h
BandUpTo(m, h) == {g \in Heads(m) : g <= h /\ df[g].PosY = df[h].PosY}

C6_CursorPlacement ==
    PanelsPlaced =>
        \A m \in {df[i].Module : i \in 1..Len(df)} :
            LET n == Cardinality(Heads(m))
            IN /\ df[HeadAt(m, 1)].PosX = 0 /\ df[HeadAt(m, 1)].PosY = 0
               /\ \A k \in 1..(n - 1) :
                     LET h == HeadAt(m, k)
                         nxt == HeadAt(m, k + 1)
                         endX == df[h].PosX + df[h].Width
                         tallest == SetMax({df[g].Height : g \in BandUpTo(m, h)})
                     IN IF endX >= 18
                        THEN df[nxt].PosX = 0 /\ df[nxt].PosY = df[h].PosY + tallest + 5
                        ELSE df[nxt].PosX = endX /\ df[nxt].PosY = df[h].PosY
               /\ (n = 6 /\ \A h \in Heads(m) : df[h].Width = 6) =>
                     /\ [k \in 1..6 |-> df[HeadAt(m, k)].PosX] = <<0, 6, 12, 0, 6, 12>>
                     /\ \A k \in 1..3 : df[HeadAt(m, k)].PosY = 0
                     /\ \A k \in 4..6 : df[HeadAt(m, k)].PosY =
                           SetMax({df[HeadAt(m, j)].Height : j \in 1..3}) + 5

C6_Witness ==
    /\ pc = "panels"
    /\ Len(df) = 7
    /\ \A i \in 1..7 : df[i].Width = 6 /\ IsPanelHead(i)
    /\ df[2].Height = 18
    /\ df[4].PosX = 0 /\ df[4].PosY = 23
    /\ df[6].PosX = 12 /\ df[6].PosY = 23
    /\ df[7].PosX = 0 /\ df[7].PosY = 42

(***************************************************************************)
(* C7: the size of a panel depends on its row group only: width 6, plus 3  *)
(* if a row has Object Type "Report"; height 14, plus 2*ceil((n-8)/2) for  *)
(* a group of n > 8 rows, plus 4 if a row has the Report Summary view.     *)
(* The width is 6 or 9 and the height an even number >= 14.                *)
(***************************************************************************)
\* the least c with 2c >= k
HalfUp(k) == CHOOSE c \in 0..k : 2 * c >= k /\ 2 * (c - 1) < k

ExpectedPanelWidth(i) ==
    6 + (IF \E j \in PanelRows(i) : df[j].ObjectType = sReport THEN 3 ELSE 0)

ExpectedPanelHeight(i) ==
    LET n == Cardinality(PanelRows(i))
    IN 14 + (IF n > 8 THEN 2 * HalfUp(n - 8) ELSE 0)
          + (IF \E j \in PanelRows(i) : df[j].ViewType = sReportSummary THEN 4 ELSE 0)

C7_PanelSize ==
    PanelsPlaced =>
        \A i \in 1..Len(df) :
            /\ df[i].Width = ExpectedPanelWidth(i)
            /\ df[i].Height = ExpectedPanelHeight(i)
            /\ df[i].Width \in {6, 9}
            /\ df[i].Height >= 14 /\ df[i].Height % 2 = 0

C7_Witness ==
    /\ pc = "panels"
    /\ Len(df) = 11
    /\ \A i \in 1..11 : SamePanel(1, i)
    /\ df[1].Width = 9
    /\ df[1].Height = 22

(***************************************************************************)
(* C8: inside a dashboard group the fields are ordered by a stable sort on *)
(* the priority score: the first group that matches the lower-cased name   *)
(* with '-' and '_' turned into spaces, tested in the order id/code/       *)
(* number/key (-10), name/title/label (-5), date/created/modified/time     *)
(* (0), status/state/condition/phase (5), amount/price/cost/value/total    *)
(* (10), email/phone/contact/address (15), else 20; rows of equal score    *)
(* keep their order.  "Description","OrderID","CreatedDate" is ordered     *)
(* "OrderID","CreatedDate","Description".                                  *)
(***************************************************************************)
\* the state the field pass leaves
FieldsPlaced == pc = "fields"

SameDashboard(i, j) == df[i].Dashboard = df[j].Dashboard

\* row a is placed before row b in the sub-grid, read row by row
PlacedBefore(a, b) ==
    \/ df[a].PosY1 < df[b].PosY1
    \/ df[a].PosY1 = df[b].PosY1 /\ df[a].PosX1 < df[b].PosX1

ExpectedScore(field) ==
    LET name == Normalize(field)
    IN IF AnyIn(id_patterns, name) THEN -10
       ELSE IF AnyIn(name_patterns, name) THEN -5
       ELSE IF AnyIn(date_patterns, name) THEN 0
       ELSE IF AnyIn(status_patterns, name) THEN 5
       ELSE IF AnyIn(amount_patterns, name) THEN 10
       ELSE IF AnyIn(contact_patterns, name) THEN 15
       ELSE 20

C8_StableSortByScore ==
    FieldsPlaced =>
        /\ \A i, j \in 1..Len(df) :
              (i < j /\ SameDashboard(i, j) /\ IsStr(df[i].Field) /\ IsStr(df[j].Field)) =>
                 IF ExpectedScore(df[i].Field) <= ExpectedScore(df[j].Field)
                 THEN PlacedBefore(i, j) ELSE PlacedBefore(j, i)
        /\ [i \in 1..Len(df) |-> df[i].Field] = <<sDescription, sOrderID, sCreatedDate>>
              => PlacedBefore(2, 3) /\ PlacedBefore(3, 1)

C8_Witness ==
    /\ pc = "fields"
    /\ [i \in 1..Len(df) |-> df[i].Field] = <<sDescription, sOrderID, sCreatedDate>>
    /\ <<df[2].PosX1, df[2].PosY1>> = <<3, 5>>
    /\ <<df[3].PosX1, df[3].PosY1>> = <<63, 5>>
    /\ <<df[1].PosX1, df[1].PosY1>> = <<3, 60>>

(***************************************************************************)
(* C9: a dashboard group of n rows is laid out in                          *)
(* columnCount = clamp(ceil(sqrt(n)), 1, 4) columns; the row at sorted     *)
(* position p (from 0) gets PosX.1 = 3 + (p mod columnCount) * 60 and      *)
(* PosY.1 = 5 + (p div columnCount) * 55, so PosX.1 is 3, 63, 123 or 183.  *)
(***************************************************************************)
DashboardRows(i) == {j \in 1..Len(df) : SameDashboard(i, j)}

ExpectedColumnCount(n) ==
    IF n <= 1 THEN 1 ELSE IF n <= 4 THEN 2 ELSE IF n <= 9 THEN 3 ELSE 4

\* how many rows of the group the stable sort puts before row i
SortedPosition(i) ==
    LET score(j) == advanced_field_priority(df[j].Field)
    IN Cardinality({j \in DashboardRows(i) :
                       \/ score(j) < score(i)
                       \/ score(j) = score(i) /\ j < i})

C9_GridPosition ==
    FieldsPlaced =>
        \A i \in 1..Len(df) :
            LET columnCount == ExpectedColumnCount(Cardinality(DashboardRows(i)))
                p == SortedPosition(i)
            IN /\ df[i].PosX1 = 3 + (p % columnCount) * 60
               /\ df[i].PosY1 = 5 + (p \div columnCount) * 55
               /\ df[i].PosX1 \in {3, 63, 123, 183}

C9_Witness ==
    /\ pc = "fields"
    /\ Len(df) = 10
    /\ \E i \in 1..Len(df) : df[i].PosX1 = 183 /\ df[i].PosY1 = 60

(***************************************************************************)
(* C10: a string field name starts from width 50, height 74; the first     *)
(* matching branch on the normalized name applies: description/comment/    *)
(* notes (100 x 100), else a date pattern (height 64), else an id pattern  *)
(* (height 50); then a raw name longer than 15 characters gets             *)
(* width = min(1.5 * width, 100).  "Notes" gets 100/100, "ModifiedDate"    *)
(* height 64, a 21-character name with no pattern width 75; the width is   *)
(* 50, 75 or 100 and the height 50, 64, 74 or 100.                         *)
(***************************************************************************)
ExpectedFieldSize(field) ==
    LET name == Normalize(field)
        w0 == IF AnyIn(size_patterns, name) THEN 100 ELSE 50
        h0 == IF AnyIn(size_patterns, name) THEN 100
              ELSE IF AnyIn(date_patterns, name) THEN 64
              ELSE IF AnyIn(id_patterns, name) THEN 50
              ELSE 74
        \* 1.5 * w0, an integer for w0 = 50 and w0 = 100
        w1 == IF Len(field) > 15 THEN Min(w0 + (w0 \div 2), 100) ELSE w0
    IN <<w1, h0>>

C10_FieldSize ==
    FieldsPlaced =>
        \A i \in 1..Len(df) :
            IsStr(df[i].Field) =>
                /\ <<df[i].Width1, df[i].Height1>> = ExpectedFieldSize(df[i].Field)
                /\ df[i].Width1 \in {50, 75, 100}
                /\ df[i].Height1 \in {50, 64, 74, 100}
                /\ df[i].Field = sNotes => df[i].Width1 = 100 /\ df[i].Height1 = 100
                /\ df[i].Field = sModifiedDate => df[i].Height1 = 64
                /\ df[i].Field = sWarehouseLocationZone => df[i].Width1 = 75

C10_Witness ==
    /\ pc = "fields"
    /\ Len(df) = 3
    /\ df[1].Field = sNotes /\ df[1].Width1 = 100 /\ df[1].Height1 = 100
    /\ df[2].Field = sModifiedDate /\ df[2].Height1 = 64
    /\ df[3].Field = sWarehouseLocationZone /\ Len(df[3].Field) = 21
    /\ df[3].Width1 = 75 /\ df[3].Height1 = 74

(***************************************************************************)
(* C11: the View Type Attributes string of a group                         *)
(***************************************************************************)
AttrsWritten == pc = "attrs"

SameViewGroup(i, j) ==
    /\ df[i].Dashboard = df[j].Dashboard
    /\ df[i].ObjectName = df[j].ObjectName
    /\ df[i].ViewType = df[j].ViewType

\* the field name with every space taken out
WithoutSpaces(f) == SelectSeq(f, LAMBDA c : c # " ")

\* the name with the whitespace at either end taken off
RECURSIVE Trimmed(_)
Trimmed(f) ==
    IF f # <<>> /\ Head(f) \in Whitespace THEN Trimmed(Tail(f))
    ELSE IF f # <<>> /\ f[Len(f)] \in Whitespace
         THEN Trimmed(SubSeq(f, 1, Len(f) - 1))
         ELSE f

\* row k brings a new segment to the group of row i: it lies in the group,
\* holds a field name, the trimmed lower-cased name is not "record id", and
\* no earlier row of the group holds the same name
BringsSegment(i, k) ==
    /\ SameViewGroup(i, k)
    /\ df[k].Field # NaN
    /\ StrLower(Trimmed(df[k].Field)) # <<"r","e","c","o","r","d"," ","i","d">>
    /\ \A j \in 1..(k - 1) : SameViewGroup(i, j) => df[j].Field # df[k].Field

\* the segments of the group of row i brought by the rows 1..k, joined by
\* "|"; spacesOnly chooses which of the two names above a segment carries
RECURSIVE ExpectedAttrs(_, _, _)
ExpectedAttrs(i, k, spacesOnly) ==
    IF k = 0 THEN <<>>
    ELSE LET before == ExpectedAttrs(i, k - 1, spacesOnly)
             name == IF spacesOnly THEN WithoutSpaces(df[k].Field)
                     ELSE Trimmed(WithoutSpaces(df[k].Field))
             first == \A j \in 1..(k - 1) : ~BringsSegment(i, j)
         IN IF ~BringsSegment(i, k) THEN before
            ELSE before \o (IF first THEN <<>> ELSE <<"|">>) \o name
                   \o <<":",":","F","a","l","s","e",":",":","0",":",":","0">>

\* C11 as stated: every row of a (Dashboard, Object Name, View Type) group
\* holds the "|"-join of name::False::0::0 over the distinct non-null fields
\* of the group in first-encounter order, the "record id" fields left out,
\* where name is the field with its spaces removed.
C11_AttrsSpacesRemoved ==
    AttrsWritten =>
        \A i \in 1..Len(df) : df[i].VTA = ExpectedAttrs(i, Len(df), TRUE)

\* C11 amended: the same, where name is the field with its spaces removed
\* and the whitespace left at either end (a tab, a line break) stripped.
C11_AttrsSpacesRemovedAndStripped ==
    AttrsWritten =>
        \A i \in 1..Len(df) : df[i].VTA = ExpectedAttrs(i, Len(df), FALSE)

sAttrExample == <<"O","r","d","e","r","I","D",":",":","F","a","l","s","e",":",":","0",":",":","0","|","S","h","i","p","D","a","t","e",":",":","F","a","l","s","e",":",":","0",":",":","0">>

\* the group ["Order ID", "Record ID", "Ship Date"] has been serialized
C11_Witness ==
    /\ AttrsWritten
    /\ Len(df) = 3
    /\ df[1].Field = sOrder_ID_Spaced /\ df[2].Field = RecordID
    /\ df[3].Field = sShip_Date_Spaced
    /\ \A i \in 1..3 : SameViewGroup(1, i) /\ df[i].VTA = sAttrExample

(***************************************************************************)
(* sanitize_field alone: a string is sanitized, and the result once more   *)
(***************************************************************************)
MaxSanitizeLen == 3

\* every character sanitize_field removes, a letter and a space
SanitizeAlphabet ==
    {".", "+", "-", "*", "/", "(", ")", "[", "]", "\"", "{", "}", "_", "a", " "}

SanitizeInputs == UNION {[1..n -> SanitizeAlphabet] : n \in 0..MaxSanitizeLen}

InitSanitize ==
    /\ summary = EmptyMap
    /\ raw \in SanitizeInputs
    /\ df = raw
    /\ pc = "sanitize"
    /\ stages = <<>>
    /\ written = <<>>
    /\ output_file = FALSE

\* df = sanitize_field(df), the first time on the input, then on the result
SanitizeField ==
    /\ pc \in {"sanitize", "sanitized"}
    /\ df' = sanitize_field(df)
    /\ pc' = IF pc = "sanitize" THEN "sanitized" ELSE "resanitized"
    /\ stages' = Append(stages, "sanitize_field")
    /\ UNCHANGED <<raw, summary, written>>
    /\ UNCHANGED output_file

NextSanitize == SanitizeField

SpecSanitize == InitSanitize /\ [][NextSanitize]_vars

(***************************************************************************)
(* C12: sanitize_field                                                     *)
(***************************************************************************)
RemovedCharacters ==
    {".", "+", "-", "*", "/", "(", ")", "[", "]", "\"", "{", "}", "_"}

\* s with every character of the set taken out, the others in their order
KeepOthers(s) == SelectSeq(s, LAMBDA c : c \notin RemovedCharacters)

\* C12: sanitize_field removes every occurrence of each character of
\* . + - * / ( ) [ ] " { } _ and nothing else: the result holds none of them,
\* it is the input with exactly these characters taken out, and sanitizing
\* the result once more gives the same string.
C12_SanitizeRemovesExactly ==
    pc \in {"sanitized", "resanitized"} =>
        /\ \A n \in 1..Len(df) : df[n] \notin RemovedCharacters
        /\ df = KeepOthers(raw)

\* "_a(" has been sanitized twice and is "a"
C12_Witness ==
    /\ pc = "resanitized"
    /\ raw = <<"_", "a", "(">>
    /\ df = <<"a">>

(***************************************************************************)
(* C13: the Display Field after validation                                 *)
(***************************************************************************)
\* C13: after validation the Display Field of every row is the sanitized
\* form of the one proposed when that form is a valid column of the row's
\* table or is "Record ID" already, and "Record ID" otherwise; so it is
\* always a valid column or "Record ID".
C13_DisplayFieldValidated ==
    pc = "validated" =>
        \A i \in 1..Len(raw) :
            LET clean == KeepOthers(raw[i].DisplayField)
                valid == ValidColumnSet(raw[i].TableName)
            IN /\ df[i].DisplayField =
                    IF clean \in valid \/ clean = RecordID THEN clean ELSE RecordID
               /\ df[i].DisplayField \in valid \cup {RecordID}

\* one validated table holds a Display Field sanitized to a valid column
\* ("Order_ID" to "OrderID") and one that fell back ("Bogus")
C13_Witness ==
    /\ pc = "validated"
    /\ Len(raw) = 2
    /\ raw[1].DisplayField = sOrder_ID /\ df[1].DisplayField = sOrderID
    /\ raw[2].DisplayField = sBogus /\ df[2].DisplayField = RecordID

(***************************************************************************)
(* C14: validation never aborts and is row-local                           *)
(***************************************************************************)
\* what the pass makes of row i when it is the only row of the table
AloneValidated(i) == validate_fields(<<raw[i]>>, summary)[1]

\* C14: validation never aborts; it returns the same rows in the same
\* order, changes no column other than Field and Display Field, and the
\* outcome for a row is the one it has when the other rows are not there.
C14_ValidationTotalRowLocal ==
    /\ pc # "raised"
    /\ pc = "validated" =>
          /\ Len(df) = Len(raw)
          /\ \A i \in 1..Len(raw) :
                /\ DOMAIN df[i] = DOMAIN raw[i]
                /\ df[i].TableName = raw[i].TableName
                /\ df[i].DataType = raw[i].DataType
                /\ df[i] = AloneValidated(i)

(***************************************************************************)
(* C15: the order of the passes of a dashboard pipeline run                *)
(***************************************************************************)
\* the passes the claim orders; in the dashboard pipeline the only pass that
\* repairs field names is clean_dashboard_fields
RepairPasses == {"validate_fields", "clean_dashboard_fields"}

OrderedPasses ==
    RepairPasses \cup {"assign_ids", "position_dashboard_panels_by_module",
                       "position_dashboard_fields", "generate_view_type_attributes"}

\* C15: a dashboard pipeline run performs field-name validation/repair, then
\* element-id assignment, then panel layout, then field layout, then
\* view-attribute serialization, each once and each over the whole table
\* before the next starts.
C15_StagesInOrder ==
    pc = "done" =>
        \E repair \in RepairPasses :
            SelectSeq(stages, LAMBDA p : p \in OrderedPasses) =
                <<repair, "assign_ids", "position_dashboard_panels_by_module",
                  "position_dashboard_fields", "generate_view_type_attributes">>

(***************************************************************************)
(* The generation stage of the three pipelines: call_openai, then          *)
(* parse_ai_response on the text of the answer.  The text is modelled as   *)
(* the sequence of its lexical pieces: the JSON punctuation, the literal   *)
(* of one row object ("{}"), any other text ("x"), white space, and the    *)
(* two fences: "FENCE" is the three backticks, "FENCE_JSON" the three      *)
(* backticks followed by json.                                             *)
(***************************************************************************)
MaxBodyLen == 4

JSONDecodeError == [kind |-> "JSONDecodeError"]

\* variant: the text between the fences is taken as it stands
ExtractFencedUntrimmed(ai_response) ==
    IF ~InList("FENCE_JSON", ai_response) THEN ai_response
    ELSE LET open == CHOOSE i \in 1..Len(ai_response) :
                        /\ ai_response[i] = "FENCE_JSON"
                        /\ \A j \in 1..(i - 1) : ai_response[j] # "FENCE_JSON"
             after == SubSeq(ai_response, open + 1, Len(ai_response))
             closes == {i \in 1..Len(after) : after[i] \in {"FENCE", "FENCE_JSON"}}
         IN IF closes = {} THEN after
            ELSE SubSeq(after, 1, (CHOOSE i \in closes : \A j \in closes : i <= j) - 1)

\* if FENCE_JSON in ai_response:
\*     ai_response = ai_response.split(FENCE_JSON)[1].split(FENCE)[0].strip()
\* the second split also cuts at the backticks of a further FENCE_JSON
ExtractFenced(ai_response) ==
    IF ~InList("FENCE_JSON", ai_response) THEN ai_response
    ELSE LET open == CHOOSE i \in 1..Len(ai_response) :
                        /\ ai_response[i] = "FENCE_JSON"
                        /\ \A j \in 1..(i - 1) : ai_response[j] # "FENCE_JSON"
             after == SubSeq(ai_response, open + 1, Len(ai_response))
             closes == {i \in 1..Len(after) : after[i] \in {"FENCE", "FENCE_JSON"}}
             inner == IF closes = {} THEN after
                      ELSE SubSeq(after, 1,
                                  (CHOOSE i \in closes : \A j \in closes : i <= j) - 1)
         IN StrStrip(inner)

\* json.loads after the opening bracket: i is the piece to read, n the
\* number of row objects read so far
RECURSIVE AfterElement(_, _, _)
AfterElement(t, i, n) ==
    IF i > Len(t) THEN JSONDecodeError
    ELSE IF t[i] = "]"
         THEN IF i = Len(t) THEN [kind |-> "list", n |-> n] ELSE JSONDecodeError
         ELSE IF t[i] = "," /\ i < Len(t) /\ t[i + 1] = "{}"
              THEN AfterElement(t, i + 2, n + 1)
              ELSE JSONDecodeError

\* variant: the row objects read before the malformed piece are kept
JsonLoadsKeepsParsedRows(text) ==
    [kind |-> "list", n |-> Len(SelectSeq(text, LAMBDA c : c = "{}"))]

\* json.loads(text): a list of n row objects, one object (a dict), or the
\* JSONDecodeError it raises; white space between the pieces is skipped
JsonLoads(text) ==
    LET t == SelectSeq(text, LAMBDA c : c \notin Whitespace)
    IN IF t = <<"{}">> THEN [kind |-> "dict"]
       ELSE IF Len(t) >= 2 /\ t[1] = "["
            THEN IF t[2] = "]"
                 THEN IF Len(t) = 2 THEN [kind |-> "list", n |-> 0]
                      ELSE JSONDecodeError
                 ELSE IF t[2] = "{}" THEN AfterElement(t, 3, 1)
                      ELSE JSONDecodeError
            ELSE JSONDecodeError

\* the row each pipeline reads out of one row object
ModuleObject == [Module |-> sSales]
TableObject == [TableName |-> sOrders, Field |-> sOrder_ID, DataType |-> sText]
DashboardObject == AiRow(sOrders, sTable, sStatus)

Rows(n, object) == [i \in 1..n |-> object]

\* ModuleGeneratorAI.parse_ai_response on a parsed list
module_parse_ai_response(n) == Rows(n, ModuleObject)

\* TableGeneratorAI.parse_ai_response on a parsed list: the defaults of the
\* columns validate_fields reads, then validate_fields
table_parse_ai_response(n, s) ==
    validate_fields(Rows(n, TableObject @@ [DisplayField |-> RecordID]), s)

\* the answers of the completion service: a body of JSON pieces, bare or
\* inside a fence, with prose around it, unclosed, or followed by a second
\* fenced block
PayloadBodies ==
    UNION {[1..n -> {"[", "]", ",", "{}", "x"}] : n \in 0..MaxBodyLen}
        \cup {<<"[", "{}", ",", "{}", "]">>, <<"[", "{}", ",", "{}", ",", "]">>}

Payloads ==
    UNION {{b,
            <<"FENCE_JSON", "\n">> \o b \o <<"\n", "FENCE">>,
            <<"x", "FENCE_JSON">> \o b \o <<"FENCE", "x">>,
            <<"FENCE_JSON">> \o b,
            <<"FENCE_JSON">> \o b \o <<"FENCE_JSON", "[", "]", "FENCE">>} :
              b \in PayloadBodies}

InitGenerate ==
    /\ pc = "start"
    /\ df = <<>>
    /\ raw = <<>>
    /\ summary = EmptyMap
    /\ stages = <<>>
    /\ written = <<>>
    /\ output_file \in BOOLEAN

\* ModuleGeneratorAI.call_openai: the answer is some text
CallOpenAIModule ==
    /\ pc = "metadata"
    /\ raw' \in Payloads
    /\ pc' = "module_answered"
    /\ stages' = Append(stages, "call_openai")
    /\ UNCHANGED <<df, summary, written>>
    /\ UNCHANGED output_file

\* TableGeneratorAI.call_openai: the answer is some text
CallOpenAITable ==
    /\ pc = "summary"
    /\ raw' \in Payloads
    /\ pc' = "table_answered"
    /\ stages' = Append(stages, "call_openai")
    /\ UNCHANGED <<df, summary, written>>
    /\ UNCHANGED output_file

\* DashboardGeneratorAI.call_openai: the answer is some text
CallOpenAIDashboard ==
    /\ pc = "summary"
    /\ raw' \in Payloads
    /\ pc' = "dashboard_answered"
    /\ stages' = Append(stages, "call_openai")
    /\ UNCHANGED <<df, summary, written>>
    /\ UNCHANGED output_file

\* ModuleGeneratorAI.parse_ai_response; pd.DataFrame of one object of
\* scalars raises ValueError
ParseModule ==
    /\ pc = "module_answered"
    /\ LET parsed == JsonLoads(ExtractFenced(raw))
       IN IF parsed = JSONDecodeError THEN pc' = "parse_failure" /\ UNCHANGED df
          ELSE IF parsed.kind = "dict" THEN pc' = "raised" /\ UNCHANGED df
          ELSE pc' = "module_generated" /\ df' = module_parse_ai_response(parsed.n)
    /\ UNCHANGED <<raw, summary, stages, written>>
    /\ UNCHANGED output_file

\* TableGeneratorAI.parse_ai_response; row.setdefault on the keys of one
\* object raises AttributeError
ParseTable ==
    /\ pc = "table_answered"
    /\ LET parsed == JsonLoads(ExtractFenced(raw))
       IN IF parsed = JSONDecodeError
          THEN pc' = "parse_failure" /\ UNCHANGED <<df, stages>>
          ELSE IF parsed.kind = "dict"
               THEN pc' = "raised" /\ UNCHANGED <<df, stages>>
               ELSE /\ pc' = "table_generated"
                    /\ df' = table_parse_ai_response(parsed.n, summary)
                    /\ stages' = Append(stages, "validate_fields")
    /\ UNCHANGED <<raw, summary, written>>
    /\ UNCHANGED output_file

\* DashboardGeneratorAI.parse_ai_response; main_pipeline goes on with
\* clean_dashboard_fields and the layout
ParseDashboard ==
    /\ pc = "dashboard_answered"
    /\ LET parsed == JsonLoads(ExtractFenced(raw))
       IN IF parsed = JSONDecodeError
          THEN pc' = "parse_failure" /\ UNCHANGED <<df, stages>>
          ELSE IF parsed.kind = "dict"
               THEN pc' = "raised" /\ UNCHANGED <<df, stages>>
               ELSE /\ pc' = "parsed"
                    /\ df' = parse_ai_response(Rows(parsed.n, DashboardObject))
                    /\ stages' = Append(stages, "assign_ids")
    /\ UNCHANGED <<raw, summary, written>>
    /\ UNCHANGED output_file

\* main_pipeline of the module and of the table generator after the
\* generation: when an output file was given, export_full_metadata and,
\* in the table pipeline, add_boolean_dropdowns; then return the frame
ReturnGenerated ==
    /\ pc \in {"module_generated", "table_generated"}
    /\ IF output_file
       THEN /\ written' = Append(written, df)
            /\ stages' = stages \o
                   (IF pc = "table_generated"
                    THEN <<"export_full_metadata", "add_boolean_dropdowns">>
                    ELSE <<"export_full_metadata">>)
       ELSE UNCHANGED <<written, stages>>
    /\ pc' = "done"
    /\ UNCHANGED <<df, raw, summary>>
    /\ UNCHANGED output_file

NextGenerate ==
    \/ LoadMetadata
    \/ LoadUserData
    \/ CallOpenAIModule
    \/ CallOpenAITable
    \/ CallOpenAIDashboard
    \/ ParseModule
    \/ ParseTable
    \/ ParseDashboard
    \/ ReturnGenerated
    \/ CleanDashboardFields
    \/ InitializeColumns
    \/ PositionPanels
    \/ PositionFields
    \/ GenerateViewTypeAttributes
    \/ ReturnFrame

SpecGenerate == InitGenerate /\ [][NextGenerate]_vars

(***************************************************************************)
(* C16: an unparseable payload                                             *)
(***************************************************************************)
\* the text of a JSON array of n row objects
RECURSIVE ArrayText(_)
ArrayText(n) ==
    IF n = 0 THEN <<"[", "]">>
    ELSE IF n = 1 THEN <<"[", "{}", "]">>
         ELSE SubSeq(ArrayText(n - 1), 1, 2 * n - 2) \o <<",", "{}", "]">>

\* t is JSON: an array of row objects or one object, white space aside
IsJsonText(t) ==
    LET pieces == SelectSeq(t, LAMBDA c : c \notin {" ", "\t", "\n"})
    IN pieces = <<"{}">> \/ \E n \in 0..Len(t) : pieces = ArrayText(n)

\* an answer was received and its payload is no JSON text
Unparseable ==
    /\ pc \notin {"start", "metadata", "summary", "none"}
    /\ ~IsJsonText(ExtractFenced(raw))

\* C16: an unparseable payload makes the generation stage of the module,
\* table or dashboard generator end in a parse failure that reaches its
\* caller: no row is produced, the completion service is not called again,
\* and nothing is written.
C16_UnparseablePayloadFails ==
    Unparseable =>
        /\ pc \in {"module_answered", "table_answered", "dashboard_answered",
                   "parse_failure"}
        /\ df = <<>>
        /\ written = <<>>
        /\ stages = <<"call_openai">>

\* the array broke off after its first row, and the stage has failed
C16_Witness ==
    /\ pc = "parse_failure"
    /\ raw = <<"FENCE_JSON", "\n", "[", "{}", ",", "x", "\n", "FENCE">>
    /\ df = <<>>

(***************************************************************************)
(* validate_sheet_columns (utils.py).  The order of the columns matters    *)
(* here, so a frame is the sequence of its column names together with its  *)
(* rows, each row a function from the column names to the cells.           *)
(***************************************************************************)
MaxSheetRows == 1

\* SHEET_SCHEMAS of constants.py: the schema of the Modules sheet
SHEET_SCHEMAS ==
    "Modules" :> <<"Module", "Parent Module", "Type", "Color", "Icon">>

Range(seq) == {seq[k] : k \in 1..Len(seq)}

\* df[col] = "": a new last column holding the empty string in every row
WithEmptyColumn(d, col) ==
    [columns |-> Append(d.columns, col),
     rows |-> IF d.rows = <<>> THEN <<>>
              ELSE [i \in 1..Len(d.rows) |-> d.rows[i] @@ (col :> "")]]

\* the loop over expected_cols[k..]
RECURSIVE FillMissing(_, _, _)
FillMissing(d, expected_cols, k) ==
    IF k > Len(expected_cols) THEN d
    ELSE FillMissing(IF expected_cols[k] \in Range(d.columns) THEN d
                     ELSE WithEmptyColumn(d, expected_cols[k]),
                     expected_cols, k + 1)

\* df[expected_cols]
SelectColumns(d, cols) ==
    [columns |-> cols,
     rows |-> IF d.rows = <<>> THEN <<>>
              ELSE [i \in 1..Len(d.rows) |-> [c \in Range(cols) |-> d.rows[i][c]]]]

\* variant: the missing columns are added, the frame is returned as it is
validate_sheet_columns_unselected(sheet_name, d) ==
    FillMissing(d, SHEET_SCHEMAS[sheet_name], 1)

validate_sheet_columns(sheet_name, d) ==
    LET expected_cols == SHEET_SCHEMAS[sheet_name]
    IN SelectColumns(FillMissing(d, expected_cols, 1), expected_cols)

\* the frames handed to the export: any choice of the declared columns and
\* of one column no schema declares, in schema order or reversed
SheetColumnPool == <<"Module", "Parent Module", "Type", "Color", "Icon", "Legacy">>

Reverse(seq) == [k \in 1..Len(seq) |-> seq[Len(seq) + 1 - k]]

SheetColumnLists ==
    UNION {{SelectSeq(SheetColumnPool, LAMBDA c : c \in chosen),
            Reverse(SelectSeq(SheetColumnPool, LAMBDA c : c \in chosen))} :
              chosen \in SUBSET Range(SheetColumnPool)}

SheetFrames ==
    UNION {[columns : {cols},
            rows : UNION {[1..n -> [Range(cols) -> {"a", ""}]] : n \in 0..MaxSheetRows}] :
              cols \in SheetColumnLists}

InitSheet ==
    /\ summary = EmptyMap
    /\ raw \in SheetFrames
    /\ df = raw
    /\ pc = "export"
    /\ stages = <<>>
    /\ written = <<>>
    /\ output_file = FALSE

\* df = validate_sheet_columns(sheet_name, df) of export_full_metadata
ValidateSheetColumns ==
    /\ pc = "export"
    /\ \E sheet_name \in DOMAIN SHEET_SCHEMAS :
           df' = validate_sheet_columns(sheet_name, df)
    /\ pc' = "schema"
    /\ stages' = Append(stages, "validate_sheet_columns")
    /\ UNCHANGED <<raw, summary, written>>
    /\ UNCHANGED output_file

NextSheet == ValidateSheetColumns

SpecSheet == InitSheet /\ [][NextSheet]_vars

(***************************************************************************)
(* C17: validate_sheet_columns                                             *)
(***************************************************************************)
DeclaredColumns == <<"Module", "Parent Module", "Type", "Color", "Icon">>

\* C17: the returned table has exactly the declared columns in declared
\* order; a declared column the input lacks holds the empty string in every
\* row, an undeclared input column is gone, and the cells of the declared
\* columns the input had are unchanged.
C17_SheetColumns ==
    pc = "schema" =>
        /\ df.columns = DeclaredColumns
        /\ Len(df.rows) = Len(raw.rows)
        /\ \A i \in 1..Len(raw.rows) :
              /\ DOMAIN df.rows[i] = Range(DeclaredColumns)
              /\ \A k \in 1..Len(DeclaredColumns) :
                    LET c == DeclaredColumns[k]
                    IN df.rows[i][c] =
                         IF c \in DOMAIN raw.rows[i] THEN raw.rows[i][c] ELSE ""

\* a row without "Icon" and with the undeclared "Legacy", columns reversed
C17_Witness ==
    /\ pc = "schema"
    /\ raw.columns = <<"Legacy", "Color", "Type", "Parent Module", "Module">>
    /\ Len(raw.rows) = 1
    /\ raw.rows[1]["Module"] = "a"
    /\ df.rows[1]["Module"] = "a" /\ df.rows[1]["Icon"] = ""

(***************************************************************************)
(* C18: the field layout groups by the dashboard name alone                *)
(***************************************************************************)
\* the cell of position p in a sub-grid of columnCount columns
GridCell(p, columnCount) ==
    <<3 + (p % columnCount) * 60, 5 + (p \div columnCount) * 55>>

\* row i shares its dashboard name with a row of another module
SharedAcrossModules(i) ==
    \E j \in 1..Len(df) : SameDashboard(i, j) /\ df[j].Module # df[i].Module

\* C18: rows of different modules that carry the same dashboard name are
\* laid out as one group: columnCount comes from their combined number,
\* and their positions are the cells of one sequence p = 0, 1, 2, ...
C18_OneGroupPerDashboardName ==
    FieldsPlaced =>
        \A i \in 1..Len(df) :
            SharedAcrossModules(i) =>
                LET group == DashboardRows(i)
                    n == Cardinality(group)
                    columnCount == ExpectedColumnCount(n)
                IN /\ {<<df[j].PosX1, df[j].PosY1>> : j \in group} =
                        {GridCell(p, columnCount) : p \in 0..(n - 1)}
                   /\ \A j \in group \ {i} :
                         <<df[j].PosX1, df[j].PosY1>> # <<df[i].PosX1, df[i].PosY1>>

\* dashboard D1 of module M1 and dashboard D1 of module M2, one row each,
\* share a sub-grid of two columns
C18_Witness ==
    /\ pc = "fields"
    /\ Len(df) = 2
    /\ df[1].Module = sM1 /\ df[2].Module = sM2
    /\ df[1].Dashboard = sD1 /\ df[2].Dashboard = sD1
    /\ <<df[1].PosX1, df[1].PosY1>> = <<3, 5>>
    /\ <<df[2].PosX1, df[2].PosY1>> = <<63, 5>>

(***************************************************************************)
(* C19: the panel layout of a module does not depend on the other modules  *)
(***************************************************************************)
\* the frame the panel pass was given
BeforePanels == initialize_dataframe_columns(raw)

ModulesInOrder == Unique(Column(BeforePanels, "Module"))

\* the row numbers of module m, and the frame of these rows alone
RowsOfModule(m) == IndexWhere(MaskEq(BeforePanels, "Module", m), 1)

ModuleAlone(m) == [k \in 1..Len(RowsOfModule(m)) |-> BeforePanels[RowsOfModule(m)[k]]]

Geometry(row) == <<row.PosX, row.PosY, row.Width, row.Height>>

\* C19: the cursor of every module starts at (0,0); the panel geometry of
\* the rows of a module is the one they get when the rows of the other
\* modules are not in the table, and the one they get when the modules are
\* processed in the opposite order.
C19_PanelsPerModule ==
    PanelsPlaced =>
        /\ \A k \in 1..Len(ModulesInOrder) :
              LET m == ModulesInOrder[k]
                  rows == RowsOfModule(m)
                  alone == position_dashboard_panels_by_module(ModuleAlone(m), <<m>>)
              IN /\ df[rows[1]].PosX = 0 /\ df[rows[1]].PosY = 0
                 /\ \A r \in 1..Len(rows) : Geometry(df[rows[r]]) = Geometry(alone[r])
        /\ \A i \in 1..Len(df) :
              Geometry(df[i]) =
                Geometry(position_dashboard_panels_by_module(
                             BeforePanels, Reverse(ModulesInOrder))[i])

\* two modules are laid out, each starting at (0,0)
C19_Witness ==
    /\ pc = "panels"
    /\ Len(df) >= 2
    /\ df[1].Module = sM1 /\ df[2].Module = sM2
    /\ df[1].PosX = 0 /\ df[1].PosY = 0
    /\ df[2].PosX = 0 /\ df[2].PosY = 0

(***************************************************************************)
(* generate_view_type_attributes followed by clean_dashboard_fields on the *)
(* frame it returned, twice                                                *)
(***************************************************************************)
MaxRecleanRows == 2

sA_bar_B == <<"A","|","B">>
sA_colons_B == <<"a",":",":","b">>

\* field names of one panel: plain, with characters sanitize_field removes,
\* with the separators of the attribute string, and the "Record ID" name
RecleanFieldPalette ==
    {sStatus, sOrder_ID, sOrder_ID_Spaced, sA_bar_B, sA_colons_B, RecordID}

RecleanTables ==
    UNION {[1..n -> {LRow(sM1, sD1, sTable, sList, f) : f \in RecleanFieldPalette}] :
              n \in 1..MaxRecleanRows}

InitReclean ==
    /\ summary = EmptyMap
    /\ raw \in RecleanTables
    /\ df = raw
    /\ pc = "fields"
    /\ stages = <<>>
    /\ written = <<>>
    /\ output_file = FALSE

\* clean_dashboard_fields(df) on the serialized frame, and once more
CleanSerialized ==
    /\ pc \in {"attrs", "recleaned"}
    /\ IF CleanRaises(df)
       THEN pc' = "raised" /\ UNCHANGED df
       ELSE /\ df' = clean_dashboard_fields(df)
            /\ pc' = IF pc = "attrs" THEN "recleaned" ELSE "recleaned_twice"
    /\ stages' = Append(stages, "clean_dashboard_fields")
    /\ UNCHANGED <<raw, summary, written>>
    /\ UNCHANGED output_file

NextReclean ==
    \/ GenerateViewTypeAttributes
    \/ CleanSerialized

SpecReclean == InitReclean /\ [][NextReclean]_vars

(***************************************************************************)
(* C20: the re-sanitization pass over View Type Attributes                 *)
(***************************************************************************)
\* the segment with its last 13 characters, "::False::0::0", taken off
NamePart(segment) == SubSeq(segment, 1, Len(segment) - 13)

\* the attribute string after the pass against the one before it: as many
\* "|" segments, each the sanitized name followed by ::False::0::0
ResanitizedFrom(after, before) ==
    LET b == StrSplit(before, <<"|">>)
        a == StrSplit(after, <<"|">>)
    IN /\ Len(a) = Len(b)
       /\ \A k \in 1..Len(b) :
             a[k] = KeepOthers(NamePart(b[k]))
                      \o <<":",":","F","a","l","s","e",":",":","0",":",":","0">>

\* one application of the pass, as a step
ResanitizeStep ==
    pc \in {"attrs", "recleaned"} =>
        /\ pc' # "raised"
        /\ \A i \in 1..Len(df) :
              /\ df[i].VTA # <<>> => ResanitizedFrom(df'[i].VTA, df[i].VTA)
              /\ df[i].VTA = <<>> => df'[i].VTA = <<>>
              /\ pc = "recleaned" => df'[i].VTA = df[i].VTA

\* C20: clean_dashboard_fields on a frame the serializer wrote completes
\* without error, keeps the number of "|" segments, replaces only the name
\* of each segment by its sanitized form and leaves ::False::0::0 as it is,
\* and a second application changes nothing.
C20_ResanitizePass == [][ResanitizeStep]_vars

(***************************************************************************)
(* Repeated runs: parse_ai_response ends in assign_ids, main_pipeline      *)
(* builds a new PositionalAligner on the frame and applies the layout.     *)
(* The frames every run returned are kept with the table the run was on.   *)
(***************************************************************************)
MaxRerunRows == 2
MaxRuns == 3

\* PositionalAligner.apply_smart_layout: the four passes in their order
apply_smart_layout(d) ==
    LET columns == initialize_dataframe_columns(d)
        modules == Unique(Column(columns, "Module"))
    IN generate_view_type_attributes(
           position_dashboard_fields(
               position_dashboard_panels_by_module(columns, modules)))

\* two dashboards of one module: a run on both leaves the counter at 3 and
\* the cursor past the first panel
RerunRowPalette ==
    {LRow(sM1, sD1, sTable, sList, sStatus),
     LRow(sM1, sD2, sReport, sReportSummary, sOrderID)}

RerunTables == UNION {[1..n -> RerunRowPalette] : n \in 1..MaxRerunRows}

\* raw holds the two tables the runs are made on
InitRerun ==
    /\ summary = EmptyMap
    /\ raw \in RerunTables \X RerunTables
    /\ df = <<>>
    /\ pc = "idle"
    /\ stages = <<>>
    /\ written = <<>>
    /\ output_file = TRUE

\* one run on one of the two tables, after whatever runs came before
RunPipeline ==
    /\ pc = "idle"
    /\ Len(written) < MaxRuns
    /\ \E input \in 1..2 :
          /\ df' = apply_smart_layout(assign_ids(raw[input]))
          /\ written' = Append(written, [table |-> raw[input], frame |-> df'])
    /\ stages' = Append(stages, "main_pipeline")
    /\ UNCHANGED <<pc, raw, summary>>
    /\ UNCHANGED output_file

\* the ids and the layout applied once more to the frame the last run returned
RunAgain ==
    /\ pc = "idle"
    /\ written # <<>>
    /\ Len(written) < MaxRuns
    /\ df' = apply_smart_layout(assign_ids(df))
    /\ written' = Append(written, [table |-> written[Len(written)].table, frame |-> df'])
    /\ stages' = Append(stages, "apply_smart_layout")
    /\ UNCHANGED <<pc, raw, summary>>
    /\ UNCHANGED output_file

NextRerun ==
    \/ RunPipeline
    \/ RunAgain

SpecRerun == InitRerun /\ [][NextRerun]_vars

(***************************************************************************)
(* C21: no state crosses calls.  The id counter and key map are new in     *)
(* each assign_ids call and the layout cursor new in each layout call:     *)
(* a run on a table, whether it is the first run, a repeated run or a run  *)
(* after a run on another table, numbers the panels from "1" again and     *)
(* gives the same ids and geometry as every other run on that table.       *)
(***************************************************************************)
\* the ids and the panel and field geometry of a returned frame
IdsAndGeometry(frame) ==
    [i \in 1..Len(frame) |->
        <<frame[i].ElementId, frame[i].PosX, frame[i].PosY, frame[i].Width,
          frame[i].Height, frame[i].PosX1, frame[i].PosY1, frame[i].Width1,
          frame[i].Height1>>]

C21_RunsIndependent ==
    /\ \A k \in 1..Len(written) :
          /\ written[k].frame[1].ElementId = s1
          /\ written[k].frame[1].PosX = 0 /\ written[k].frame[1].PosY = 0
          /\ \E i \in 1..Len(written[k].frame) :
                written[k].frame[i].PosX1 = 3 /\ written[k].frame[i].PosY1 = 5
    /\ \A k, l \in 1..Len(written) :
          written[k].table = written[l].table =>
              IdsAndGeometry(written[k].frame) = IdsAndGeometry(written[l].frame)

\* a table run first, then another table, then the first table again
C21_Witness ==
    /\ Len(written) = 3
    /\ written[1].table = written[3].table
    /\ written[1].table # written[2].table
    /\ Len(written[3].frame) = 2
    /\ written[3].frame[2].ElementId = <<"2">>
    /\ written[2].frame[1].ElementId = s1

(***************************************************************************)
(* C22: a Field value that is no string is never an error in the field     *)
(* layout: the pass completes, the row is scored 100 and so is placed      *)
(* after every string field of its group, it still receives its grid       *)
(* position, and it has the default field size 50 x 50.                    *)
(***************************************************************************)
\* the rows of the group of row i that are placed before it: every string
\* field, and the earlier rows whose Field is no string either
BeforeNonString(i) ==
    {j \in DashboardRows(i) : IsStr(df[j].Field) \/ j < i}

C22_NonStringFieldPlaced ==
    FieldsPlaced =>
        \A i \in 1..Len(df) :
            ~IsStr(df[i].Field) =>
                LET columnCount == ExpectedColumnCount(Cardinality(DashboardRows(i)))
                    p == Cardinality(BeforeNonString(i))
                IN /\ \A j \in DashboardRows(i) :
                         IsStr(df[j].Field) => PlacedBefore(j, i)
                   /\ df[i].PosX1 = 3 + (p % columnCount) * 60
                   /\ df[i].PosY1 = 5 + (p \div columnCount) * 55
                   /\ df[i].Width1 = 50 /\ df[i].Height1 = 50

C22_Witness ==
    /\ pc = "fields"
    /\ [i \in 1..Len(df) |-> df[i].Field] = <<NaN, sDescription, sOrderID>>
    /\ <<df[1].PosX1, df[1].PosY1>> = <<3, 60>>
    /\ <<df[1].Width1, df[1].Height1>> = <<50, 50>>
    /\ <<df[2].PosX1, df[2].PosY1>> = <<63, 5>>

(***************************************************************************)
(* dropdowns.inject_dropdowns, called by the dashboard main_pipeline on    *)
(* the sheets Modules, Table, Dashboard, Links of the exported workbook.   *)
(* A workbook maps a sheet name to its header row and to the list          *)
(* validations of its columns; raw is the workbook as exported, written    *)
(* holds the file, stages the message each call printed.                   *)
(***************************************************************************)
TrueFalse == <<"TRUE", "FALSE">>

DROPDOWN_CONFIGS ==
    [Modules |-> "Type" :> <<"Module", "Dashboard">>,
     Table |->
        [f \in {"Notes?", "Events?", "Timers?", "Delete?", "Clone?", "Hide Search?",
                "Web Form?", "Required?", "Auto Increment?",
                "Recalculate on each update ?", "Field Group Show Icon"} |-> TrueFalse]
        @@ ("Security" :> <<"None", "Readonly", "Full Restrict">>),
     Dashboard |->
        [f \in {"Bold", "Italicize", "Hide Header?", "Hide Body?", "Bold?",
                "Italicize?", "Bold? - L", "Italicize? - L"} |-> TrueFalse]
        @@ ("View Type" :> <<"Empty", "List", "Calendar", "Chart", "Report Summary", "Kanban">>)
        @@ ("Object Type" :> <<"Table", "Report", "Form">>)
        @@ ("Field Type" :> <<"Field", "Static Text">>),
     Links |-> "Link Type" :> <<"Lookup", "LookupRestricted", "ManyToMany", "MasterDetail">>]

\* the calls of main_pipeline, in their order
InjectOrder == <<"Modules", "Table", "Dashboard", "Links">>

\* the loop over config.items(): a list validation on every configured
\* field that is among the headers
Validated(ws, config) ==
    [ws EXCEPT !.validations =
        [field \in (DOMAIN config) \cap ws.headers |-> config[field]]]

\* variant: the failure comes after wb.save
inject_dropdowns_saved_on_error(book, sheet_name, fails) ==
    IF sheet_name \notin DOMAIN book
    THEN [book |-> book, printed |-> IF fails THEN "error" ELSE "not found"]
    ELSE [book |-> [book EXCEPT ![sheet_name] =
                       Validated(book[sheet_name], DROPDOWN_CONFIGS[sheet_name])],
          printed |-> IF fails THEN "error" ELSE "injected"]

\* fails: load_workbook or wb.save raises, which the except clause prints
inject_dropdowns(book, sheet_name, fails) ==
    IF fails THEN [book |-> book, printed |-> "error"]
    ELSE IF sheet_name \notin DOMAIN book
    THEN [book |-> book, printed |-> "not found"]
    ELSE [book |-> [book EXCEPT ![sheet_name] =
                       Validated(book[sheet_name], DROPDOWN_CONFIGS[sheet_name])],
          printed |-> "injected"]

\* header rows: every configured field and one more column, one configured
\* field only, or none of them
HeaderRows(sheet_name) ==
    LET fields == DOMAIN DROPDOWN_CONFIGS[sheet_name]
    IN {fields \cup {"Description"},
        {CHOOSE f \in fields : TRUE, "Description"},
        {"Description"}}

NoValidations == [f \in {} |-> <<>>]

WorksheetsOf(sheet_name) ==
    {[headers |-> h, validations |-> NoValidations] : h \in HeaderRows(sheet_name)}

\* the exported workbook holds any of the four sheets
Workbooks ==
    UNION {{book \in [sheets -> UNION {WorksheetsOf(s) : s \in sheets}] :
               \A s \in sheets : book[s] \in WorksheetsOf(s)} :
           sheets \in SUBSET Range(InjectOrder)}

InitDropdowns ==
    /\ summary = EmptyMap
    /\ raw \in Workbooks
    /\ df = <<>>
    /\ pc = "exported"
    /\ stages = <<>>
    /\ written = <<raw>>
    /\ output_file = TRUE

\* the next of the four calls; the file is rewritten by wb.save only
InjectDropdowns ==
    /\ pc = "exported"
    /\ \E fails \in BOOLEAN :
          LET call == inject_dropdowns(written[1], InjectOrder[Len(stages) + 1], fails)
          IN /\ written' = <<call.book>>
             /\ stages' = Append(stages, call.printed)
    /\ pc' = IF Len(stages) + 1 = Len(InjectOrder) THEN "done" ELSE pc
    /\ UNCHANGED <<df, raw, summary>>
    /\ UNCHANGED output_file

NextDropdowns == InjectDropdowns

SpecDropdowns == InitDropdowns /\ [][NextDropdowns]_vars

(***************************************************************************)
(* C23: dropdown injection over Modules, Table, Dashboard, Links is        *)
(* recoverable per sheet: a call on a sheet that is missing from the       *)
(* workbook, or whose injection fails, leaves the workbook as it was and   *)
(* raises nothing, and the calls for the remaining sheets are still made,  *)
(* in order, each putting its dropdowns on its own sheet.                  *)
(***************************************************************************)
\* the list validations a completed injection leaves on a sheet
ExpectedValidations(sheet_name) ==
    {field \in raw[sheet_name].headers : field \in DOMAIN DROPDOWN_CONFIGS[sheet_name]}

C23_InjectionRecoverable ==
    LET book == written[1]
    IN /\ pc \in {"exported", "done"}
       /\ pc = "done" <=> Len(stages) = 4
       /\ pc = "exported" => ENABLED InjectDropdowns
       /\ DOMAIN book = DOMAIN raw
       /\ \A k \in 1..4 :
             LET sheet == InjectOrder[k]
             IN IF k > Len(stages)
                THEN sheet \in DOMAIN raw => book[sheet] = raw[sheet]
                ELSE /\ sheet \notin DOMAIN raw => stages[k] \in {"not found", "error"}
                     /\ stages[k] \in {"not found", "error"} =>
                            (sheet \in DOMAIN raw => book[sheet] = raw[sheet])
                     /\ stages[k] \notin {"not found", "error"} =>
                            /\ sheet \in DOMAIN raw
                            /\ book[sheet].headers = raw[sheet].headers
                            /\ DOMAIN book[sheet].validations = ExpectedValidations(sheet)

\* Modules is missing and the Dashboard injection fails; Table and Links
\* still get their dropdowns
C23_Witness ==
    /\ pc = "done"
    /\ stages = <<"not found", "injected", "error", "injected">>
    /\ DOMAIN raw = {"Table", "Dashboard", "Links"}
    /\ "View Type" \in raw["Dashboard"].headers
    /\ "Security" \in DOMAIN written[1]["Table"].validations
    /\ DOMAIN written[1]["Dashboard"].validations = {}
    /\ DOMAIN written[1]["Links"].validations = {"Link Type"}

(***************************************************************************)
(* The payload extraction of the three parse_ai_response methods, applied  *)
(* to completion texts over fences, whitespace and other text              *)
(***************************************************************************)
MaxTextLen == 5

CompletionTexts ==
    UNION {[1..n -> {"FENCE_JSON", "FENCE", " ", "\n", "x"}] : n \in 0..MaxTextLen}

InitExtract ==
    /\ summary = EmptyMap
    /\ raw \in CompletionTexts
    /\ df = <<>>
    /\ pc = "answered"
    /\ stages = <<>>
    /\ written = <<>>
    /\ output_file = FALSE

\* the text handed to json.loads
ExtractPayload ==
    /\ pc = "answered"
    /\ df' = ExtractFenced(raw)
    /\ pc' = "extracted"
    /\ UNCHANGED <<raw, summary, stages, written>>
    /\ UNCHANGED output_file

NextExtract == ExtractPayload

SpecExtract == InitExtract /\ [][NextExtract]_vars

(***************************************************************************)
(* C24: when the completion text holds a json fence, the payload is the    *)
(* text between the first json fence and the next three backticks after    *)
(* it, trimmed of surrounding whitespace; when the text holds no json      *)
(* fence, the payload is the whole text unchanged.                         *)
(***************************************************************************)
\* three backticks open both kinds of fence
Backticks(piece) == piece \in {"FENCE", "FENCE_JSON"}

JsonFences == {i \in 1..Len(raw) : raw[i] = "FENCE_JSON"}

FirstJsonFence == CHOOSE i \in JsonFences : \A j \in JsonFences : i <= j

ClosingFences == {i \in (FirstJsonFence + 1)..Len(raw) : Backticks(raw[i])}

NextFence == CHOOSE i \in ClosingFences : \A j \in ClosingFences : i <= j

\* p is text without its surrounding whitespace
IsTrimmed(p, text) ==
    /\ p = <<>> \/ (p[1] \notin Whitespace /\ p[Len(p)] \notin Whitespace)
    /\ \E a \in 0..Len(text) :
          /\ a + Len(p) <= Len(text)
          /\ SubSeq(text, a + 1, a + Len(p)) = p
          /\ \A i \in 1..Len(text) :
                (i <= a \/ i > a + Len(p)) => text[i] \in Whitespace

C24_PayloadExtraction ==
    pc = "extracted" =>
        IF JsonFences = {} THEN df = raw
        ELSE ClosingFences # {} =>
                IsTrimmed(df, SubSeq(raw, FirstJsonFence + 1, NextFence - 1))

\* prose, then a fenced body with a line break before it
C24_Witness ==
    /\ pc = "extracted"
    /\ raw = <<"x", "FENCE_JSON", "\n", "x", "FENCE">>
    /\ df = <<"x">>

\* no fence: the surrounding whitespace stays
C24_WitnessUnfenced ==
    /\ pc = "extracted"
    /\ raw = <<" ", "x", "FENCE", "\n">>
    /\ df = raw

(***************************************************************************)
(* C25: element ids are injective on hierarchy pairs: after assign_ids,    *)
(* two rows have the same Element Id if and only if they have the same     *)
(* module and the same dashboard, for all names, those that contain the    *)
(* character "|" included.                                                 *)
(***************************************************************************)
C25_IdsInjectiveOnPairs ==
    pc = "assigned" =>
        \A i, j \in 1..Len(df) :
            df[i].ElementId = df[j].ElementId
                <=> (df[i].Module = df[j].Module /\ df[i].Dashboard = df[j].Dashboard)

(***************************************************************************)
(* C26: after the panel layout the rectangles                              *)
(* [PosX, PosX+Width) x [PosY, PosY+Height) of two different dashboards    *)
(* of the same module do not overlap: within a band the x-intervals are    *)
(* disjoint, and every later band starts at least 5 units below the        *)
(* tallest panel of the band before it.                                    *)
(***************************************************************************)
SameModuleOtherDashboard(i, j) ==
    df[i].Module = df[j].Module /\ df[i].Dashboard # df[j].Dashboard

RectanglesOverlap(i, j) ==
    /\ df[i].PosX < df[j].PosX + df[j].Width
    /\ df[j].PosX < df[i].PosX + df[i].Width
    /\ df[i].PosY < df[j].PosY + df[j].Height
    /\ df[j].PosY < df[i].PosY + df[i].Height

C26_PanelsDisjoint ==
    PanelsPlaced =>
        \A i, j \in 1..Len(df) :
            SameModuleOtherDashboard(i, j) =>
                /\ ~RectanglesOverlap(i, j)
                /\ df[i].PosY = df[j].PosY =>
                      \/ df[i].PosX + df[i].Width <= df[j].PosX
                      \/ df[j].PosX + df[j].Width <= df[i].PosX
                /\ df[i].PosY < df[j].PosY =>
                      df[j].PosY >= df[i].PosY + df[i].Height + 5

\* a band whose first panel is the tallest, and the band below it
C26_Witness ==
    /\ pc = "panels"
    /\ Len(df) = 5
    /\ \A i, j \in 1..5 : i # j => SameModuleOtherDashboard(i, j)
    /\ [i \in 1..5 |-> df[i].Width] = <<6, 9, 6, 9, 9>>
    /\ df[1].Height = 18 /\ df[3].Height = 14
    /\ <<df[3].PosX, df[3].PosY>> = <<15, 0>>
    /\ <<df[4].PosX, df[4].PosY>> = <<0, 23>>
    /\ <<df[5].PosX, df[5].PosY>> = <<9, 23>>

(***************************************************************************)
(* C27: after the panel layout every panel lies inside the 18-unit-wide    *)
(* grid: 0 <= PosX and PosX + Width <= 18 for every row, for every mix of  *)
(* width-6 and width-9 panels in a module.                                 *)
(***************************************************************************)
C27_PanelsInsideGrid ==
    PanelsPlaced =>
        \A i \in 1..Len(df) :
            0 <= df[i].PosX /\ df[i].PosX + df[i].Width <= 18

(***************************************************************************)
(* C28: after the field layout the boxes                                   *)
(* [PosX.1, PosX.1+Width.1) x [PosY.1, PosY.1+Height.1) of two different   *)
(* rows of the same dashboard group do not overlap, given the 60-unit      *)
(* horizontal and 55-unit vertical steps and the assigned field sizes.     *)
(***************************************************************************)
\* the boxes [x, x+w) x [y, y+h) of rows i and j with the given extents
BoxesOverlap(i, j, wi, hi, wj, hj) ==
    /\ df[i].PosX1 < df[j].PosX1 + wj
    /\ df[j].PosX1 < df[i].PosX1 + wi
    /\ df[i].PosY1 < df[j].PosY1 + hj
    /\ df[j].PosY1 < df[i].PosY1 + hi

C28_FieldBoxesDisjoint ==
    FieldsPlaced =>
        \A i, j \in 1..Len(df) :
            (i # j /\ SameDashboard(i, j)) =>
                ~BoxesOverlap(i, j, df[i].Width1, df[i].Height1,
                                    df[j].Width1, df[j].Height1)

(***************************************************************************)
(* C29: in the dashboard and table pipelines, when loading the metadata    *)
(* workbook or the user raw workbook fails, main_pipeline returns None     *)
(* and in that run the completion service is never called, no layout or    *)
(* validation pass runs and no output workbook is written; likewise,       *)
(* without an output file the pipeline never writes a workbook or injects  *)
(* dropdowns.                                                              *)
(***************************************************************************)
LoadErrors == {"Error loading Excel", "Error loading User Raw Excel"}

OutputSteps == {"export_full_metadata", "inject_dropdowns", "add_boolean_dropdowns"}

LoadFailed == \E k \in 1..Len(stages) : stages[k] \in LoadErrors

C29_FailedLoadEndsRun ==
    /\ LoadFailed =>
          /\ pc = "none"
          /\ Len(stages) = 1
          /\ raw = <<>> /\ df = <<>>
          /\ written = <<>>
          /\ ~ENABLED NextGenerate
    /\ pc = "none" => LoadFailed
    /\ ~output_file =>
          /\ written = <<>>
          /\ \A k \in 1..Len(stages) : stages[k] \notin OutputSteps

\* the user raw workbook could not be read: the run is over
C29_Witness ==
    /\ pc = "none"
    /\ stages = <<"Error loading User Raw Excel">>
    /\ written = <<>>

\* a dashboard run without an output file has returned its frame
C29_WitnessNoOutput ==
    /\ pc = "done"
    /\ ~output_file
    /\ "generate_view_type_attributes" \in {stages[k] : k \in 1..Len(stages)}
    /\ written = <<>>
====
